---- MODULE Spec2Model ----
(***************************************************************************)
(* A model of the CIP client engine of cip-library: the transport methods  *)
(* of CIPClient (src/src/cip/cipClient.js), the secure session layer of    *)
(* SecureCIPClient (src/src/cip/secureCIPClient.js) and the parser calls   *)
(* they make (src/src/cip/cipParser.js).                                   *)
(*                                                                         *)
(* SecureCIPClient calls this.send, this.receive and this.sendCipRequest;  *)
(* those methods are the ones of CIPClient, so one client object carries   *)
(* the fields of both classes.  Buffers are sequences of bytes (0..255).   *)
(* Every async method is cut at its awaits: the part up to the first await *)
(* is the Call action, the continuation after the write callback is        *)
(* SendCallback, the continuation after a 'data' event is Continue.        *)
(***************************************************************************)
EXTENDS Integers, Sequences, FiniteSets, TLC

(***************************************************************************)
(* Bounds of the model.                                                    *)
(***************************************************************************)
MaxSent == 3

MaxNow == 1

MaxSeq == 2

MaxUnheard == 1

(***************************************************************************)
(* Program constants.                                                      *)
(***************************************************************************)
SEND_RRDATA == 101

REGISTER_SESSION == 101

UNREGISTER_SESSION == 102

STATUS_SUCCESS == 0

PROTOCOL_VERSION == 4

GET_ATTRIBUTES == 1

SET_ATTRIBUTES == 2

IDENTITY == 1

EXCLUSIVE_OWNER == 0

TYPE_NULL == 0

TYPE_MULTICAST == 8192

TYPE_PT2PT == 16384

PRIOR_SCHED == 2048

DIRECTION_CLIENT == 0

TRIG_CYCLIC == 0

SEG_CLASS == 32

SEG_INSTANCE == 36

SEG_ATTRIBUTE == 48

MAC_LENGTH == 8

HEADER_LENGTH == 24

(* An optional value is a sequence of at most one element: Undefined is   *)
(* the value of a property never assigned or of an argument left out.     *)
Undefined == <<>>

Some(v) == <<v>>

(***************************************************************************)
(* Buffers.                                                                *)
(***************************************************************************)
Min(a, b) == IF a < b THEN a ELSE b

Max(a, b) == IF a > b THEN a ELSE b

(* Buffer.alloc(n) *)
Alloc(n) == [i \in 1..n |-> 0]

(* buf.writeUInt16LE / writeUInt32LE / writeInt32LE: the bytes written *)
U16LE(v) == <<v % 256, (v \div 256) % 256>>

U32LE(v) == <<v % 256, (v \div 256) % 256, (v \div 65536) % 256, (v \div 16777216) % 256>>

(* buf.readUInt32LE(off); defined when off + 4 <= buf.length *)
ReadUInt32LE(buf, off) ==
  buf[off + 1] + 256 * buf[off + 2] + 65536 * buf[off + 3] + 16777216 * buf[off + 4]

(* An index of buf.slice, clamped as Buffer.prototype.slice clamps it. *)
SliceIndex(len, i) == IF i < 0 THEN Max(len + i, 0) ELSE Min(i, len)

(* buf.slice(start, end) *)
Slice(buf, start, end) ==
  LET s == SliceIndex(Len(buf), start)
      e == SliceIndex(Len(buf), end)
  IN  IF e <= s THEN <<>> ELSE SubSeq(buf, s + 1, e)

(* buf.slice(start) *)
SliceFrom(buf, start) == Slice(buf, start, Len(buf))

(* buf.copy(target, at): target with buf written at offset at *)
CopyInto(target, at, buf) ==
  [i \in 1..Len(target) |->
     IF i > at /\ i <= at + Len(buf) THEN buf[i - at] ELSE target[i]]

(* n.toString(16), as the sequence of its hexadecimal digits *)
RECURSIVE ToHex(_)
ToHex(n) ==
  LET digit == SubSeq(<<"0","1","2","3","4","5","6","7","8","9","a","b","c","d","e","f">>,
                      (n % 16) + 1, (n % 16) + 1)
  IN  IF n < 16 THEN digit ELSE ToHex(n \div 16) \o digit

(***************************************************************************)
(* createHmac('sha256', key).update(..).digest().slice(0, 8).              *)
(* SHA-256 is replaced by a keyed polynomial checksum over the prime field *)
(* of 251 elements, one polynomial per output byte: like the real MAC, it  *)
(* is a function of the key and of every byte of the message, and within   *)
(* the bounds of the model two messages that differ in one byte never get  *)
(* the same tag.                                                           *)
(***************************************************************************)
RECURSIVE Horner(_, _, _)
Horner(acc, x, bytes) ==
  IF bytes = <<>> THEN acc
  ELSE Horner((acc * x + Head(bytes) + 1) % 251, x, Tail(bytes))

HmacTrunc(key, message) ==
  [i \in 1..MAC_LENGTH |-> Horner(Horner(i, i + 2, key), i + 2, message)]

(***************************************************************************)
(* Packets built by the client.                                            *)
(***************************************************************************)
(* Mutant: the registration packet is left without the nonce. *)
BuildRegistrationPacket_NoNonce(nonce) ==
  LET p0 == CopyInto(Alloc(28), 20, <<(DIRECTION_CLIENT + TRIG_CYCLIC) % 256>>)
      p1 == CopyInto(p0, 0, U16LE(REGISTER_SESSION))
  IN  CopyInto(p1, 2, U16LE(PROTOCOL_VERSION))

(* SecureCIPClient.buildRegistrationPacket *)
BuildRegistrationPacket(nonce) ==
  LET p0 == CopyInto(Alloc(28), 20, <<(DIRECTION_CLIENT + TRIG_CYCLIC) % 256>>)
      p1 == CopyInto(p0, 0, U16LE(REGISTER_SESSION))
      p2 == CopyInto(p1, 2, U16LE(PROTOCOL_VERSION))
  IN  CopyInto(p2, 4, SubSeq(nonce, 1, 16))

(* SecureCIPClient.sendSessionClose: the packet it writes *)
BuildSessionClosePacket(handle) ==
  CopyInto(CopyInto(Alloc(HEADER_LENGTH), 0, U16LE(UNREGISTER_SESSION)), 4, U32LE(handle))

(* The header of a secure data packet: command, length, session handle,    *)
(* status, sender context, options.  The method takes no argument, so the  *)
(* length field cannot carry the payload length and is left 0.             *)
BuildEncapHeader(handle) ==
  CopyInto(CopyInto(Alloc(HEADER_LENGTH), 0, U16LE(SEND_RRDATA)), 4, U32LE(handle))

(* The packet assembled by sendSecureData for data under sequence number seq *)
BuildSecurePacket(nonce, handle, data, seq) ==
  LET sequenceBuf == U32LE(seq)
      mac == HmacTrunc(nonce, data \o sequenceBuf)
  IN  BuildEncapHeader(handle) \o data \o sequenceBuf \o mac

(* Mutant: the connection parameters are written after the sender context. *)
BuildEncapMessage_ParamsLast(command, data, handle, senderContext, params) ==
  LET h1 == CopyInto(Alloc(HEADER_LENGTH), 0, U16LE(command))
      h2 == CopyInto(h1, 2, U16LE(Len(data)))
      h3 == CopyInto(h2, 4, U32LE(handle))
      h4 == CopyInto(h3, 8, U32LE(0))
      h5 == CopyInto(h4, 12, SubSeq(senderContext, 1, 8))
  IN  CopyInto(h5, 16, U16LE(params)) \o data

(* CIPClient.buildEncapMessage; params is owner | type | priority *)
BuildEncapMessage(command, data, handle, senderContext, params) ==
  LET h0 == CopyInto(Alloc(HEADER_LENGTH), 16, U16LE(params))
      h1 == CopyInto(h0, 0, U16LE(command))
      h2 == CopyInto(h1, 2, U16LE(Len(data)))
      h3 == CopyInto(h2, 4, U32LE(handle))
      h4 == CopyInto(h3, 8, U32LE(0))
      h5 == CopyInto(h4, 12, SubSeq(senderContext, 1, 8))
  IN  h5 \o data

(* The CIP service payload of sendCipRequest.  Buffer.from stores each     *)
(* array element modulo 256 and floors path.length / 2.                    *)
BuildCipData(serviceCode, path, requestData) ==
  <<serviceCode % 256, (Len(path) \div 2) % 256>> \o path \o requestData

(***************************************************************************)
(* Results of the synchronous parts: err = "none" means a normal return of *)
(* res, any other err names the error thrown and msg its message.          *)
(***************************************************************************)
Return(v) == [err |-> "none", msg |-> <<>>, res |-> v]

Throw(e) == [err |-> e, msg |-> <<>>, res |-> <<>>]

ThrowMsg(e, m) == [err |-> e, msg |-> m, res |-> <<>>]

(* Mutant: the Idle check is left out. *)
SessionCheck_Skipped(active) == Return(<<>>)

(* The Idle check of establishSecureSession *)
SessionCheck(active) ==
  IF active THEN Throw("SessionAlreadyActive") ELSE Return(<<>>)

(* Mutant: the two checks in the other order. *)
SecureDataCheck_Swapped(type, active) ==
  IF ~active THEN Throw("SessionNotActive")
  ELSE IF type # Some(TYPE_PT2PT) THEN Throw("NotPointToPoint")
  ELSE Return(<<>>)

(* The two checks of sendSecureData, in their order *)
SecureDataCheck(type, active) ==
  IF type # Some(TYPE_PT2PT) THEN Throw("NotPointToPoint")
  ELSE IF ~active THEN Throw("SessionNotActive")
  ELSE Return(<<>>)

(* Mutant: the counter is not incremented. *)
NextSequence_Stale(seq) == seq

(* ++this.securityContext.sequenceNumber *)
NextSequence(seq) == seq + 1

(* Mutant: the failure of the send is not caught. *)
ShutdownOutcome_Rethrow(sendOk) ==
  IF sendOk THEN Return(<<>>) ELSE Throw("TransportError")

(* gracefulShutdown's try/catch around sendSessionClose: a failed send is  *)
(* logged and the method returns normally.                                 *)
ShutdownOutcome(sendOk) == Return(<<>>)

(* SecureCIPClient.calculateMac *)
CalculateMac(nonce, payload) == HmacTrunc(nonce, payload)

(* Mutant: the MAC is verified before the session handle. *)
ValidateReply_MacFirst(response, handle, nonce) ==
  IF Len(response) < HEADER_LENGTH THEN Throw("InvalidLength")
  ELSE IF CalculateMac(nonce, Slice(response, 24, -12)) # SliceFrom(response, -8)
       THEN Throw("SecurityError")
  ELSE IF ReadUInt32LE(response, 4) # handle THEN Throw("SessionHandleMismatch")
  ELSE Return(Slice(response, 24, -12))

(* Mutant: the MAC is not verified. *)
ValidateReply_NoMac(response, handle, nonce) ==
  IF Len(response) < HEADER_LENGTH THEN Throw("InvalidLength")
  ELSE IF ReadUInt32LE(response, 4) # handle THEN Throw("SessionHandleMismatch")
  ELSE Return(Slice(response, 24, -12))

(* SecureCIPClient.receiveWithValidation, after the reply has arrived *)
ValidateReply(response, handle, nonce) ==
  IF Len(response) < HEADER_LENGTH THEN Throw("InvalidLength")
  ELSE IF ReadUInt32LE(response, 4) # handle THEN Throw("SessionHandleMismatch")
  ELSE LET payload == Slice(response, 24, -12)
           receivedMac == SliceFrom(response, -8)
       IN  IF CalculateMac(nonce, payload) # receivedMac
           THEN Throw("SecurityError")
           ELSE Return(payload)

(* Mutant: the status word is not checked. *)
ValidateSessionResponse_NoStatus(response) ==
  IF Len(response) < 8 THEN Throw("InvalidSessionResponse") ELSE Return(<<>>)

(* SecureCIPClient.validateSessionResponse *)
ValidateSessionResponse(response) ==
  IF Len(response) < 8 THEN Throw("InvalidSessionResponse")
  ELSE IF ReadUInt32LE(response, 4) # STATUS_SUCCESS
       THEN ThrowMsg("SessionRegistrationFailed",
                     <<"Session registration failed (Code: 0x">>
                       \o ToHex(ReadUInt32LE(response, 4)) \o <<")">>)
       ELSE Return(<<>>)

(* Mutant: the status word is read from offset 4, the session handle. *)
CheckEncapReply_WrongOffset(response) ==
  IF Len(response) < 12 THEN Throw("RangeError")
  ELSE IF ReadUInt32LE(response, 4) # 0
       THEN ThrowMsg("EncapsulationError",
                     <<"EtherNet/IP Error: 0x">> \o ToHex(ReadUInt32LE(response, 4)))
       ELSE Return(SliceFrom(response, 24))

(* CIPClient.sendCipRequest, after the reply has arrived *)
CheckEncapReply(response) ==
  IF Len(response) < 12 THEN Throw("RangeError")
  ELSE IF ReadUInt32LE(response, 8) # 0
       THEN ThrowMsg("EncapsulationError",
                     <<"EtherNet/IP Error: 0x">> \o ToHex(ReadUInt32LE(response, 8)))
       ELSE Return(SliceFrom(response, 24))

(***************************************************************************)
(* The parser calls made by getAttribute and setAttribute.                 *)
(***************************************************************************)
(* validateId of buildObjectPath: "absent", "invalid" (it throws) or "valid" *)
ValidateId(id) ==
  IF id = Undefined THEN "absent"
  ELSE IF id[1] < 0 \/ id[1] > 65535 THEN "invalid"
  ELSE "valid"

(* One segment of the path: nothing for an absent id, else the segment     *)
(* type and the id as Buffer.from stores it (modulo 256).                  *)
Segment(type, id) == IF id = Undefined THEN <<>> ELSE <<type, id[1] % 256>>

(* CIPParser.buildObjectPath.  The three validations are joined by ||, so  *)
(* the ids after the first valid one are not validated.                    *)
BuildObjectPath(classId, instanceId, attributeId) ==
  LET path == Segment(SEG_CLASS, classId) \o Segment(SEG_INSTANCE, instanceId)
                \o Segment(SEG_ATTRIBUTE, attributeId)
  IN  CASE ValidateId(classId) = "invalid" -> ThrowMsg("ValidationError", <<"Class">>)
        [] ValidateId(classId) = "valid" -> Return(path)
        [] ValidateId(instanceId) = "invalid" -> ThrowMsg("ValidationError", <<"Instance">>)
        [] ValidateId(instanceId) = "valid" -> Return(path)
        [] ValidateId(attributeId) = "invalid" -> ThrowMsg("ValidationError", <<"Attribute">>)
        [] ValidateId(attributeId) = "valid" -> Return(path)
        [] OTHER -> Throw("MissingIdentifier")

(***************************************************************************)
(* cipDataTypes.js: the type codes and CIPDataTypeDecoder.                 *)
(***************************************************************************)
DT_BOOL == 193

DT_SINT == 194

DT_INT == 195

DT_DINT == 196

DT_REAL == 202

DT_STRING == 218

DT_ARRAY == 224

DT_STRUCT == 225

DT_LREAL == 203

(* The codes of Object.values(CIP_DATA_TYPES) *)
TypeCodes ==
  {DT_BOOL, DT_SINT, DT_INT, DT_DINT, DT_REAL, DT_STRING, DT_ARRAY, DT_STRUCT, DT_LREAL}

(* A JavaScript value handed to a parser: a Buffer of bytes, or something  *)
(* that is not a Buffer.                                                   *)
Buffer(bytes) == [kind |-> "Buffer", bytes |-> bytes]

NotABuffer == [kind |-> "string", bytes |-> <<>>]

(* Decoded values.  A float is kept as its bit pattern, most significant   *)
(* byte first; a raw value is the Buffer that decode returns as it is.     *)
Value(kind, num, bytes, items) ==
  [kind |-> kind, num |-> num, bytes |-> bytes, items |-> items]

BoolValue(b) == Value("boolean", IF b THEN 1 ELSE 0, <<>>, <<>>)

NumberValue(n) == Value("number", n, <<>>, <<>>)

FloatValue(bits) == Value("float", 0, bits, <<>>)

StringValue(chars) == Value("string", 0, chars, <<>>)

RawValue(bytes) == Value("Buffer", 0, bytes, <<>>)

ListValue(items) == Value("Array", 0, <<>>, items)

(* One member {type, value} of a decoded struct *)
MemberValue(type, value) == Value("member", type, <<>>, <<value>>)

(* buf with its bytes in the opposite order *)
Reverse(buf) == [i \in 1..Len(buf) |-> buf[Len(buf) + 1 - i]]

(* buf.readUInt16BE(off) *)
ReadUInt16BE(buf, off) == 256 * buf[off + 1] + buf[off + 2]

(* buf.readInt8(0) .. buf.readInt32LE/BE(0): two's complement of the bytes, *)
(* given most significant byte first                                       *)
ReadInt8(buf) == IF buf[1] >= 128 THEN buf[1] - 256 ELSE buf[1]

ReadInt16(hiFirst) ==
  LET u == 256 * hiFirst[1] + hiFirst[2]
  IN  IF u >= 32768 THEN u - 65536 ELSE u

ReadInt32(hiFirst) ==
  LET top == IF hiFirst[1] >= 128 THEN hiFirst[1] - 256 ELSE hiFirst[1]
  IN  16777216 * top + 65536 * hiFirst[2] + 256 * hiFirst[3] + hiFirst[4]

(* The first n bytes of data, most significant first *)
HiFirst(data, n, isBigEndian) ==
  IF isBigEndian THEN SubSeq(data, 1, n) ELSE Reverse(SubSeq(data, 1, n))

(* buf.toString("ascii"): each byte with its top bit cleared *)
ToAscii(buf) == [i \in 1..Len(buf) |-> buf[i] % 128]

(* CIP_DATA_TYPES[elementType]?.size || 0 in decodeArray and decodeStruct: *)
(* CIP_DATA_TYPES is keyed by type name, the lookup is by numeric code, so *)
(* the size is 0 for every code.                                           *)
ElementSize(typeCode) == 0

RECURSIVE Decode(_, _, _), DecodeMembers(_, _, _, _)

(* CIPDataTypeDecoder.decodeArray *)
DecodeArray(data, isBigEndian) ==
  IF Len(data) < 4 THEN Throw("RangeError")
  ELSE LET elementType == ReadUInt16BE(data, 0)
           elementCount == ReadUInt16BE(data, 2)
           size == ElementSize(elementType)
           rs == [i \in 1..elementCount |->
                    Decode(elementType,
                           Slice(data, 4 + (i - 1) * size, 4 + i * size), isBigEndian)]
           bad == {i \in 1..elementCount : rs[i].err # "none"}
       IN  IF bad = {} THEN Return(ListValue([i \in 1..elementCount |-> rs[i].res]))
           ELSE rs[CHOOSE i \in bad : \A j \in bad : i <= j]

(* The loop of decodeStruct: the members still to read, from offset on *)
DecodeMembers(data, offset, remaining, isBigEndian) ==
  IF remaining = 0 THEN Return(<<>>)
  ELSE IF offset + 2 > Len(data) THEN Throw("RangeError")
  ELSE LET memberType == ReadUInt16BE(data, offset)
           size == ElementSize(memberType)
           r == Decode(memberType, Slice(data, offset + 2, offset + 2 + size), isBigEndian)
           rest == DecodeMembers(data, offset + 2 + size, remaining - 1, isBigEndian)
       IN  IF r.err # "none" THEN r
           ELSE IF rest.err # "none" THEN rest
           ELSE Return(<<MemberValue(memberType, r.res)>> \o rest.res)

(* CIPDataTypeDecoder.decodeStruct *)
DecodeStruct(data, isBigEndian) ==
  IF Len(data) < 2 THEN Throw("RangeError")
  ELSE LET members == DecodeMembers(data, 2, ReadUInt16BE(data, 0), isBigEndian)
       IN  IF members.err # "none" THEN members ELSE Return(ListValue(members.res))

(* CIPDataTypeDecoder.decode: a read past the end of data throws a         *)
(* RangeError; LREAL has no case and comes back as the raw Buffer.         *)
Decode(typeCode, data, isBigEndian) ==
  IF typeCode \notin TypeCodes
    THEN ThrowMsg("Error", <<"Unsupported CIP data type: 0x">> \o ToHex(typeCode))
  ELSE IF typeCode = DT_BOOL
    THEN IF Len(data) < 1 THEN Throw("RangeError") ELSE Return(BoolValue(data[1] # 0))
  ELSE IF typeCode = DT_SINT
    THEN IF Len(data) < 1 THEN Throw("RangeError") ELSE Return(NumberValue(ReadInt8(data)))
  ELSE IF typeCode = DT_INT
    THEN IF Len(data) < 2 THEN Throw("RangeError")
         ELSE Return(NumberValue(ReadInt16(HiFirst(data, 2, isBigEndian))))
  ELSE IF typeCode = DT_DINT
    THEN IF Len(data) < 4 THEN Throw("RangeError")
         ELSE Return(NumberValue(ReadInt32(HiFirst(data, 4, isBigEndian))))
  ELSE IF typeCode = DT_REAL
    THEN IF Len(data) < 4 THEN Throw("RangeError")
         ELSE Return(FloatValue(HiFirst(data, 4, isBigEndian)))
  ELSE IF typeCode = DT_STRING
    THEN IF Len(data) < 1 THEN Throw("RangeError")
         ELSE Return(StringValue(ToAscii(Slice(data, 1, 1 + data[1]))))
  ELSE IF typeCode = DT_ARRAY THEN DecodeArray(data, isBigEndian)
  ELSE IF typeCode = DT_STRUCT THEN DecodeStruct(data, isBigEndian)
  ELSE Return(RawValue(data))

(***************************************************************************)
(* CIPParser.encodeData.  A value is a boolean, an integral number or a    *)
(* string (the sequence of its character codes).                           *)
(***************************************************************************)
(* value ? 0xFF : 0x00 *)
Truthy(value) ==
  IF value.kind = "string" THEN value.bytes # <<>> ELSE value.num # 0

(* The 32-bit integer the operators & and >> make of value: a string that  *)
(* is empty or not a numeral gives 0                                       *)
ToInt32(value) == IF value.kind = "string" THEN 0 ELSE value.num

(* n.toString() for an integer n, as character codes *)
RECURSIVE Digits(_)
Digits(n) == IF n < 10 THEN <<48 + n>> ELSE Digits(n \div 10) \o <<48 + (n % 10)>>

(* String(value) *)
StringOf(value) ==
  IF value.kind = "string" THEN value.bytes
  ELSE IF value.kind = "boolean"
    THEN (IF value.num = 1 THEN <<116, 114, 117, 101>> ELSE <<102, 97, 108, 115, 101>>)
  ELSE IF value.num < 0 THEN <<45>> \o Digits(0 - value.num)
  ELSE Digits(value.num)

(* Buffer.from(str, "ascii"): one byte for each character, its code modulo 256 *)
FromAscii(chars) == [i \in 1..Len(chars) |-> chars[i] % 256]

(* buf.writeInt32BE(value, 0) on Buffer.alloc(4), for a number value: the  *)
(* two's complement bytes, most significant first                          *)
Int32Bytes(n) ==
  <<(n \div 16777216) % 256, (n \div 65536) % 256, (n \div 256) % 256, n % 256>>

(* The string encodeData throws for a code it has no case for *)
ThrowUnsupported(typeCode) ==
  ThrowMsg("Error", <<"Unsupported data type: 0x">> \o ToHex(typeCode))

(* Mutant: the little-endian INT is written most significant byte first. *)
EncodeInt_SameOrder(n, isBigEndian) == <<(n \div 256) % 256, n % 256>>

(* The INT case of encodeData: (value >> 8) & 0xFF and value & 0xFF *)
EncodeInt(n, isBigEndian) ==
  IF isBigEndian THEN <<(n \div 256) % 256, n % 256>> ELSE <<n % 256, (n \div 256) % 256>>

(* Mutant: the string is not cut at 255 characters. *)
Truncate_Never(chars, maxLength) == chars

(* str.substring(0, maxLength) *)
Truncate(chars, maxLength) == SubSeq(chars, 1, Min(Len(chars), maxLength))

(* CIPParser.encodeData(value, dataType, isBigEndian) with typeCode the    *)
(* code of dataType.  DINT and REAL share the writeInt32 case; LREAL,      *)
(* ARRAY and STRUCT have no case.                                          *)
EncodeData(value, typeCode, isBigEndian) ==
  IF typeCode = DT_BOOL THEN Return(<<IF Truthy(value) THEN 255 ELSE 0>>)
  ELSE IF typeCode = DT_SINT THEN Return(<<ToInt32(value) % 256>>)
  ELSE IF typeCode = DT_INT THEN Return(EncodeInt(ToInt32(value), isBigEndian))
  ELSE IF typeCode \in {DT_DINT, DT_REAL}
    THEN IF isBigEndian THEN Return(Int32Bytes(value.num))
         ELSE Return(Reverse(Int32Bytes(value.num)))
  ELSE IF typeCode = DT_STRING
    THEN LET strBuffer == FromAscii(Truncate(StringOf(value), 255))
         IN  Return(<<Len(strBuffer) % 256>> \o strBuffer)
  ELSE ThrowUnsupported(typeCode)

(***************************************************************************)
(* cipErrorCodes.js: the names of the catalog and CIPErrorParser.  (The    *)
(* key 0x2D is written twice in the object literal; the later entry is the *)
(* one the object holds.)                                                  *)
(***************************************************************************)
CIP_ERROR_CODES ==
  (0 :> "Success") @@ (1 :> "ConnectionFailure") @@
  (2 :> "ResourceUnavailable") @@ (3 :> "InvalidParameter") @@
  (4 :> "PathSegmentError") @@ (5 :> "PathDestinationUnknown") @@
  (6 :> "PartialTransfer") @@ (7 :> "ConnectionLost") @@
  (8 :> "ServiceNotSupported") @@ (9 :> "InvalidAttributeValue") @@
  (10 :> "AttributeListError") @@ (11 :> "AlreadyInRequestedMode") @@
  (12 :> "ObjectStateConflict") @@ (13 :> "ObjectAlreadyExists") @@
  (14 :> "AttributeNotSettable") @@ (15 :> "PrivilegeViolation") @@
  (16 :> "DevInWrongState") @@ (17 :> "ReplyDataTooLarge") @@
  (18 :> "FragmentPrimitive") @@ (19 :> "ConfigTooSmall") @@
  (20 :> "UndefinedAttr") @@ (21 :> "ConfigTooBig") @@
  (22 :> "ObjDoesNotExist") @@ (23 :> "NoFragmentation") @@
  (24 :> "DataNotSaved") @@ (25 :> "DataWriteFailure") @@
  (26 :> "RequestTooLarge") @@ (27 :> "ResponseTooLarge") @@
  (28 :> "MissingListData") @@ (29 :> "InvalidListStatus") @@
  (30 :> "ServiceError") @@ (31 :> "ConnRelatedFailure") @@
  (32 :> "InvalidParameter") @@ (33 :> "WriteOnceFailure") @@
  (34 :> "InvalidReply") @@ (35 :> "CstNotSynchronized") @@
  (37 :> "BadKeyInPath") @@ (38 :> "BadPathSize") @@
  (39 :> "UnexpectedAttr") @@ (40 :> "InvalidMember") @@
  (41 :> "MemberNotSettable") @@ (42 :> "DnetGrp2OnlySrvr") @@
  (43 :> "DisqualifiedMode") @@ (44 :> "PrimaryMode") @@
  (45 :> "SecondaryMode") @@ (46 :> "BadServiceForPath") @@
  (97 :> "NvsBypass") @@ (251 :> "PortNotSupported") @@
  (255 :> "GctGeneral") @@ (4096 :> "VendorSpecificError")

(* The second copy of cipErrorCodes.js: the names of its catalog *)
CIP_ERROR_CODES_2 ==
  (0 :> "Success") @@ (1 :> "ConnectionFailure") @@
  (2 :> "ResourceUnavailable") @@ (3 :> "InvalidParameter") @@
  (4 :> "PathProcessingFailure") @@ (5 :> "PathDestinationUnknown") @@
  (6 :> "PartialTransfer") @@ (7 :> "ConnectionLost") @@
  (8 :> "ServiceNotSupported") @@ (9 :> "AttributeNotSupported") @@
  (10 :> "AttributeListError") @@ (11 :> "AlreadyInRequestedMode") @@
  (12 :> "ObjectStateConflict") @@ (13 :> "ObjectAlreadyExists") @@
  (14 :> "AttributeNotSettable") @@ (15 :> "PrivilegeViolation") @@
  (16 :> "DeviceStateConflict") @@ (17 :> "ReplyDataTooLarge") @@
  (18 :> "FragmentationOfPrimitive") @@ (19 :> "NotEnoughData") @@
  (20 :> "AttributeNotFound") @@ (21 :> "TooMuchData") @@
  (22 :> "ObjectDoesNotExist") @@ (23 :> "NoFragmentation") @@
  (24 :> "DataNotSaved") @@ (25 :> "DataWriteFailure") @@
  (26 :> "RequestTooLarge") @@ (27 :> "ResponseTooLarge") @@
  (28 :> "MissingListData") @@ (29 :> "InvalidListStatus") @@
  (30 :> "ServiceError") @@ (31 :> "ConnectionRelatedFailure") @@
  (33 :> "WriteOnceFailure") @@ (34 :> "InvalidReply") @@
  (35 :> "BufferInvalidSize") @@ (36 :> "InvalidAttributeData") @@
  (37 :> "InvalidKeySegmentInPath") @@ (38 :> "InvalidPathSize") @@
  (39 :> "UnexpectedAttribute") @@ (40 :> "InvalidMember") @@
  (41 :> "MemberNotSettable") @@ (42 :> "DnetGroup2OnlyServer") @@
  (43 :> "DisqualifiedRedundancyMode") @@ (44 :> "PrimaryMode") @@
  (45 :> "InstanceNotDeletable") @@ (46 :> "SecondaryMode") @@
  (47 :> "InvalidServiceForPath") @@ (97 :> "NvsUpdateInProgress") @@
  (251 :> "MessagePortNotSupported") @@ (255 :> "GeneralError") @@
  (4096 :> "VendorSpecificError")

(* The catalog of each of the two copies of cipErrorCodes.js *)
Catalogs == <<CIP_ERROR_CODES, CIP_ERROR_CODES_2>>

(* Mutant: 0x07 is not among the recoverable codes. *)
IsRecoverableError_Narrow(code) == code \in {2, 6}

(* CIPErrorParser.isRecoverableError (the same in both copies) *)
IsRecoverableError(code) == code \in {2, 6, 7}

(* CIPErrorParser.parse over the given catalog: the descriptor of a status *)
(* code (the same code in both copies, description apart)                  *)
ErrorParseIn(catalog, statusCode, extendedStatus) ==
  [code |-> statusCode,
   extendedCode |-> extendedStatus,
   name |-> IF statusCode \in DOMAIN catalog THEN catalog[statusCode] ELSE "UnknownError",
   isRecoverable |-> IsRecoverableError(statusCode)]

(* CIPErrorParser.parse as the parser calls it *)
ErrorParse(statusCode, extendedStatus) ==
  ErrorParseIn(CIP_ERROR_CODES, statusCode, extendedStatus)

(* buf.toString("hex"): two digits for each byte *)
BufferToHex(buf) ==
  LET digits == <<"0","1","2","3","4","5","6","7","8","9","a","b","c","d","e","f">>
  IN  [i \in 1..(2 * Len(buf)) |->
         IF i % 2 = 1 THEN digits[(buf[(i + 1) \div 2] \div 16) + 1]
         ELSE digits[(buf[i \div 2] % 16) + 1]]

(* A thrown object: its kind, its message and its other properties *)
ThrowWith(e, m, props) == [err |-> e, msg |-> m, res |-> <<props>>]

(* parseAttributeResponse begins by reading the identifier classId, which  *)
(* cipParser.js declares nowhere (no parameter, no variable, no import).   *)
ClassIdDeclared == FALSE

(* The status check of parseAttributeResponse: the thrown object is the    *)
(* descriptor of the status with the response in hexadecimal.              *)
StatusCheck(response) ==
  IF response[1] # 0
    THEN ThrowWith("ProtocolStatusError", <<>>,
           [descriptor |-> ErrorParse(response[1],
                             IF Len(response) >= 3 THEN ReadUInt16BE(response, 1) ELSE 0),
            rawResponse |-> BufferToHex(response)])
  ELSE Return(<<>>)

(* parseAttributeResponse from its Buffer check on *)
ParseAttributeBody(response, isBigEndian) ==
  IF response.kind # "Buffer"
    THEN ThrowMsg("ResponseFormatError", <<"Response must be a Buffer">>)
  ELSE IF Len(response.bytes) < 4
    THEN ThrowMsg("ResponseFormatError", <<"Invalid response length">>)
  ELSE IF StatusCheck(response.bytes).err # "none" THEN StatusCheck(response.bytes)
  ELSE LET dataTypeCode == ReadUInt16BE(response.bytes, 2)
           data == SliceFrom(response.bytes, 4)
           value == Decode(dataTypeCode, data, isBigEndian)
       IN  IF value.err = "none"
             THEN Return(<<[dataType |-> dataTypeCode, value |-> value.res]>>)
           ELSE ThrowWith(value.err, value.msg, [rawData |-> BufferToHex(data)])

(* CIPParser.parseAttributeResponse.  Its first statement compares classId *)
(* (the branch it guards would need that identifier to exist).             *)
ParseAttributeResponse(response, isBigEndian) ==
  IF ~ClassIdDeclared THEN Throw("ReferenceError")
  ELSE ParseAttributeBody(response, isBigEndian)

(* Mutant: the status byte of a set-attribute response is not tested. *)
SetStatusCheck_Ignored(response) == Return(<<>>)

(* The status check of parseSetAttributeResponse: the thrown object is the *)
(* descriptor of the status, tagged with the operation.                    *)
SetStatusCheck(response) ==
  IF response[1] # 0
    THEN ThrowWith("ProtocolStatusError", <<>>,
           [descriptor |-> ErrorParse(response[1], 0), operation |-> "SET_ATTRIBUTE"])
  ELSE Return(<<>>)

(* CIPParser.parseSetAttributeResponse *)
ParseSetAttributeResponse(response) ==
  IF response.kind # "Buffer"
    THEN ThrowMsg("ResponseFormatError", <<"Response must be a Buffer">>)
  ELSE IF Len(response.bytes) < 1
    THEN ThrowMsg("ResponseFormatError", <<"Empty response for set attribute">>)
  ELSE IF SetStatusCheck(response.bytes).err # "none" THEN SetStatusCheck(response.bytes)
  ELSE Return(<<[success |-> TRUE]>>)

(***************************************************************************)
(* The state of one client object and of its socket.                       *)
(***************************************************************************)
VARIABLES
  sessionNonce,     \* this.sessionNonce
  sessionHandle,    \* this.sessionHandle
  sessionActive,    \* this.sessionActive
  sequenceNumber,   \* this.securityContext.sequenceNumber
  lastActivity,     \* this.securityContext.lastActivity
  connectionType,   \* this.connectionType
  connected,        \* this._connected
  sock,             \* this.client: "fresh", "connecting", "open", "ending" (end()
                    \* called, not yet finished), "destroyed", or "closed"
                    \* (destroyed and its 'close' event emitted)
  sent,             \* the packets written to the open socket, in order, each
                    \* with the method that wrote it
  listeners,        \* the calls whose once('data') listener is registered, in order
  ready,            \* the calls resolved by a 'data' event whose continuation has not run
  calls,            \* the method calls made on the client, one record per slot
  now,              \* Date.now()
  hist              \* history: closed, a gracefulShutdown has run its finally block;
                    \* passes, the sendSecureData calls that passed their checks
                    \* since the last successful handshake; and, kept only when
                    \* watch is set: timedOut, a receive has timed out; unheard,
                    \* the chunks that arrived since with no listener registered

vars == <<sessionNonce, sessionHandle, sessionActive, sequenceNumber, lastActivity,
          connectionType, connected, sock, sent, listeners, ready, calls, now,
          hist>>

session == <<sessionNonce, sessionHandle, sessionActive, sequenceNumber, lastActivity>>

Slots == 1..2

(* randomBytes(16): the nonces the model draws from *)
Nonces == {[i \in 1..16 |-> 17], [i \in 1..16 |-> (i * 7) % 256]}

(* The fields a frame condition compares before and after a call. *)
Snapshot ==
  [nonce |-> sessionNonce, handle |-> sessionHandle, active |-> sessionActive,
   seq |-> sequenceNumber, last |-> lastActivity, type |-> connectionType,
   nsent |-> Len(sent)]

NoSnapshot ==
  [nonce |-> <<>>, handle |-> 0, active |-> FALSE, seq |-> 0, last |-> 0, type |-> <<>>,
   nsent |-> 0]

NoCall ==
  [op |-> "none", pc |-> "idle", ids |-> <<>>, buf |-> <<>>, pkt |-> <<>>, data |-> <<>>,
   wok |-> FALSE, err |-> "none", msg |-> <<>>, res |-> <<>>, pre |-> NoSnapshot, sends |-> 0,
   recvs |-> 0, ord |-> 0, args |-> <<>>, meta |-> <<>>]

(* A call is in flight while it waits for a write callback ("send"), for a *)
(* 'data' event ("recv"), for its continuation to be run ("resume"), for   *)
(* the connect callback ("connect") or for the callback of end() ("end").  *)
InFlight(t) == calls[t].pc \in {"send", "recv", "resume", "connect", "end"}

(* A call that has ended hands its result to its caller before anything    *)
(* else happens (Complete); Quiet holds when no such hand-over and no      *)
(* continuation is pending.                                                *)
Settled == \A t \in DOMAIN calls : calls[t].pc # "done"

Quiet == ready = <<>> /\ Settled

(* A new call takes the lowest free slot; at most n calls are in flight.   *)
CanStart(t, n) ==
  /\ Quiet
  /\ ~InFlight(t)
  /\ \A u \in Slots : u < t => InFlight(u)
  /\ Cardinality({u \in Slots : InFlight(u)}) < n

(* ord orders the calls in flight by their start: 1 for the older (or the  *)
(* only) one, 2 for one started while another is in flight.                *)
NewCall(name) ==
  [NoCall EXCEPT !.op = name, !.pre = Snapshot,
                 !.ord = IF \E u \in Slots : InFlight(u) THEN 2 ELSE 1]

(* The call ends: it returns r.res or throws r.err. *)
Done(c, r) == [c EXCEPT !.pc = "done", !.err = r.err, !.msg = r.msg, !.res = r.res]

(* The history as it starts; the timeouts are not recorded *)
NoHistory ==
  [closed |-> FALSE, passes |-> 0, watch |-> FALSE, timedOut |-> FALSE, unheard |-> 0]

(* SecureCIPClient constructor (and the fields of the CIPClient constructor), *)
(* with history h                                                          *)
Constructed(h) ==
  /\ sessionNonce \in Nonces
  /\ sessionHandle = 0
  /\ sessionActive = FALSE
  /\ sequenceNumber = 0
  /\ lastActivity = 0
  /\ connectionType = Undefined
  /\ connected = FALSE
  /\ sock = "fresh"
  /\ sent = <<>>
  /\ listeners = <<>>
  /\ ready = <<>>
  /\ now = 0
  /\ hist = h
  /\ calls = [t \in Slots |-> NoCall]

Init == Constructed(NoHistory)

(* The same client with its timeouts recorded *)
InitLate == Constructed([NoHistory EXCEPT !.watch = TRUE])

(***************************************************************************)
(* The transport: CIPClient.connect, send and receive, and the socket's    *)
(* events.                                                                 *)
(***************************************************************************)
(* CIPClient.connect: a client that is not connected opens the connection  *)
(* (net.Socket.connect also reopens a destroyed socket) and the connect    *)
(* callback sets _connected.                                               *)
Connect ==
  /\ Quiet
  /\ ~connected
  /\ sock' = "open"
  /\ connected' = TRUE
  /\ UNCHANGED <<session, connectionType, sent, listeners, ready, calls, now, hist>>

(* The peer or the network ends the connection. *)
PeerClose ==
  /\ Quiet
  /\ sock = "open"
  /\ sock' = "destroyed"
  /\ UNCHANGED <<session, connectionType, connected, sent, listeners, ready, calls, now, hist>>

(* client.destroy() *)
Destroyed == "destroyed"

(* Mutant: the 'close' listener leaves the flag as it is. *)
OnClose_Kept(flag) == flag

(* this.client.on("close", () => { this._connected = false; ... }) *)
OnClose(flag) == FALSE

(* The 'close' listener of _setupListeners *)
SocketClosed ==
  /\ Quiet
  /\ sock = "destroyed"
  /\ connected
  /\ connected' = OnClose(connected)
  /\ sock' = "closed"
  /\ UNCHANGED <<session, connectionType, sent, listeners, ready, calls, now, hist>>

(* Mutant: connect() never takes the early return. *)
AlreadyConnected_Never(flag) == FALSE

(* connect(): if (this._connected) return resolve(); *)
AlreadyConnected(flag) == flag

(* CIPClient.connect() up to the return of the promise: a connected client *)
(* resolves at once, any other calls client.connect and waits for its      *)
(* callback or for an 'error' event.  args records _connected and the      *)
(* socket as the call found them.  One connect() is awaited at a time.     *)
ConnectCall(t) ==
  /\ CanStart(t, 2)
  /\ \A u \in Slots : calls[u].pc # "connect"
  /\ LET c == [NewCall("connect") EXCEPT !.args = <<connected, sock>>]
     IN  IF AlreadyConnected(connected)
         THEN /\ calls' = [calls EXCEPT ![t] = Done(c, Return(<<>>))]
              /\ sock' = sock
         ELSE /\ calls' = [calls EXCEPT ![t] = [c EXCEPT !.pc = "connect"]]
              /\ sock' = "connecting"
  /\ UNCHANGED <<session, connectionType, connected, sent, listeners, ready, now, hist>>

(* The callback handed to client.connect *)
ConnectCallback(t) ==
  /\ Quiet
  /\ calls[t].pc = "connect"
  /\ sock = "connecting"
  /\ sock' = "open"
  /\ connected' = TRUE
  /\ calls' = [calls EXCEPT ![t] = Done(calls[t], Return(<<>>))]
  /\ UNCHANGED <<session, connectionType, sent, listeners, ready, now, hist>>

(* this.client.once("error", reject): the connection attempt fails *)
ConnectError(t) ==
  /\ Quiet
  /\ calls[t].pc = "connect"
  /\ sock = "connecting"
  /\ sock' = Destroyed
  /\ calls' = [calls EXCEPT ![t] = Done(calls[t], Throw("ConnectError"))]
  /\ UNCHANGED <<session, connectionType, connected, sent, listeners, ready, now, hist>>

(* client.destroy() on a socket whose 'close' event has been emitted *)
DestroyedFrom(state) == IF state = "closed" THEN "closed" ELSE Destroyed

(* CIPClient.disconnect(): nothing on a client that is not connected;      *)
(* otherwise client.end(callback).  On an open socket the callback runs    *)
(* when the socket has finished; on a socket already ended or destroyed    *)
(* end() calls it back at once with an error, which the callback ignores.  *)
Disconnect(t) ==
  /\ CanStart(t, 2)
  /\ LET c == [NewCall("disconnect") EXCEPT !.args = <<connected, sock>>]
     IN  CASE ~connected ->
                /\ calls' = [calls EXCEPT ![t] = Done(c, Return(<<>>))]
                /\ UNCHANGED <<sock, connected>>
           [] connected /\ sock = "open" ->
                /\ calls' = [calls EXCEPT ![t] = [c EXCEPT !.pc = "end"]]
                /\ sock' = "ending"
                /\ UNCHANGED connected
           [] connected /\ sock # "open" ->
                /\ calls' = [calls EXCEPT ![t] = Done(c, Return(<<>>))]
                /\ sock' = DestroyedFrom(sock)
                /\ connected' = FALSE
  /\ UNCHANGED <<session, connectionType, sent, listeners, ready, now, hist>>

(* The callback of client.end: destroy the socket and clear the flag *)
EndCallback(t) ==
  /\ Quiet
  /\ calls[t].pc = "end"
  /\ sock' = DestroyedFrom(sock)
  /\ connected' = FALSE
  /\ calls' = [calls EXCEPT ![t] = Done(calls[t], Return(<<>>))]
  /\ UNCHANGED <<session, connectionType, sent, listeners, ready, now, hist>>

(* The caller assigns the property that sendSecureData reads; a caller     *)
(* that has chosen point-to-point keeps it.                                *)
SetConnectionType(type) ==
  /\ Quiet
  /\ connectionType # Some(type)
  /\ connectionType # Some(TYPE_PT2PT)
  /\ connectionType' = Some(type)
  /\ UNCHANGED <<session, connected, sock, sent, listeners, ready, calls, now, hist>>

(* Time passes. *)
Tick ==
  /\ Quiet
  /\ now < MaxNow
  /\ now' = now + 1
  /\ UNCHANGED <<session, connectionType, connected, sock, sent, listeners, ready, calls, hist>>

(* CIPClient.send(packet) up to its await: client.write hands the packet   *)
(* to the socket, which transmits it when open and otherwise reports an    *)
(* error to the callback.                                                  *)
Send(c, packet) ==
  [c EXCEPT !.pc = "send", !.pkt = packet, !.wok = (sock = "open"), !.sends = c.sends + 1]

Written(op, packet) ==
  IF sock = "open" THEN Append(sent, [op |-> op, bytes |-> packet]) ELSE sent

(* The log of written packets is bounded: a method that writes to the open *)
(* socket starts only while the log has room.                              *)
CanWrite == sock # "open" \/ Len(sent) < MaxSent

(* CIPClient.receive() up to its await: the timer and the listener are set *)
Receive(c) == [c EXCEPT !.pc = "recv", !.recvs = c.recvs + 1]

(***************************************************************************)
(* SecureCIPClient: the part of each method up to its first await.         *)
(***************************************************************************)
(* establishSecureSession: the Idle check and the send of the registration *)
EstablishSecureSession(t, n) ==
  /\ CanStart(t, n)
  /\ CanWrite
  /\ LET c == NewCall("establishSecureSession")
         packet == BuildRegistrationPacket(sessionNonce)
         check == SessionCheck(sessionActive)
     IN  IF check.err # "none"
         THEN /\ calls' = [calls EXCEPT ![t] = Done(c, check)]
              /\ sent' = sent
         ELSE /\ calls' = [calls EXCEPT ![t] = Send(c, packet)]
              /\ sent' = Written(c.op, packet)
  /\ UNCHANGED <<session, connectionType, connected, sock, listeners, ready, now, hist>>

(* sendSecureData: the two checks, the increment, the MAC and the send *)
SendSecureData(t, n, data) ==
  /\ CanStart(t, n)
  /\ CanWrite
  /\ sequenceNumber < MaxSeq
  /\ LET c == [NewCall("sendSecureData") EXCEPT !.buf = data]
         check == SecureDataCheck(connectionType, sessionActive)
         packet == BuildSecurePacket(sessionNonce, sessionHandle, data,
                                     NextSequence(sequenceNumber))
     IN  IF check.err # "none"
         THEN /\ calls' = [calls EXCEPT ![t] = Done(c, check)]
              /\ UNCHANGED <<sequenceNumber, sent, hist>>
         ELSE /\ sequenceNumber' = NextSequence(sequenceNumber)
              /\ hist' = [hist EXCEPT !.passes = hist.passes + 1]
              /\ calls' = [calls EXCEPT ![t] = Send(c, packet)]
              /\ sent' = Written(c.op, packet)
  /\ UNCHANGED <<sessionNonce, sessionHandle, sessionActive, lastActivity,
                 connectionType, connected, sock, listeners, ready, now>>

(* receiveWithValidation: the call of receive *)
ReceiveWithValidation(t, n) ==
  /\ CanStart(t, n)
  /\ calls' = [calls EXCEPT ![t] = Receive(NewCall("receiveWithValidation"))]
  /\ listeners' = Append(listeners, t)
  /\ UNCHANGED <<session, connectionType, connected, sock, sent, ready, now, hist>>

(* gracefulShutdown: with an active session the send of the unregister     *)
(* packet; otherwise the finally block at once.                            *)
GracefulShutdown(t, n) ==
  /\ CanStart(t, n)
  /\ CanWrite
  /\ LET c == NewCall("gracefulShutdown")
         packet == BuildSessionClosePacket(sessionHandle)
     IN  IF sessionActive
         THEN /\ calls' = [calls EXCEPT ![t] = Send(c, packet)]
              /\ sent' = Written(c.op, packet)
              /\ UNCHANGED <<sock, sessionActive, hist>>
         ELSE /\ calls' = [calls EXCEPT ![t] = Done(c, Return(<<>>))]
              /\ sock' = Destroyed
              /\ sessionActive' = FALSE
              /\ hist' = [hist EXCEPT !.closed = TRUE]
              /\ sent' = sent
  /\ UNCHANGED <<sessionNonce, sessionHandle, sequenceNumber, lastActivity,
                 connectionType, connected, listeners, ready, now>>

(***************************************************************************)
(* CIPClient: the part of each request method up to its first await.       *)
(***************************************************************************)
(* connectionParams of the constructor: owner | type | priority *)
ConnectionParams == EXCLUSIVE_OWNER + TYPE_PT2PT + PRIOR_SCHED

(* this.senderContext = Buffer.alloc(8) *)
SenderContext == Alloc(8)

(* The message sendCipRequest writes *)
CipRequestMessage(serviceCode, path, requestData) ==
  BuildEncapMessage(SEND_RRDATA, BuildCipData(serviceCode, path, requestData),
                    sessionHandle, SenderContext, ConnectionParams)

(* sendCipRequest(serviceCode, path, requestData) *)
SendCipRequest(t, n, serviceCode, path, requestData) ==
  /\ CanStart(t, n)
  /\ CanWrite
  /\ LET c == [NewCall("sendCipRequest") EXCEPT !.buf = requestData]
         packet == CipRequestMessage(serviceCode, path, requestData)
     IN  /\ calls' = [calls EXCEPT ![t] = Send(c, packet)]
         /\ sent' = Written(c.op, packet)
  /\ UNCHANGED <<session, connectionType, connected, sock, listeners, ready, now, hist>>

(* getAttribute(classId, instanceId, attributeId) *)
GetAttribute(t, n, ids) ==
  /\ CanStart(t, n)
  /\ CanWrite
  /\ LET c == [NewCall("getAttribute") EXCEPT !.ids = ids]
         path == BuildObjectPath(ids[1], ids[2], ids[3])
         packet == CipRequestMessage(GET_ATTRIBUTES, path.res, <<>>)
     IN  IF path.err # "none"
         THEN /\ calls' = [calls EXCEPT ![t] = Done(c, path)]
              /\ sent' = sent
         ELSE /\ calls' = [calls EXCEPT ![t] = Send(c, packet)]
              /\ sent' = Written(c.op, packet)
  /\ UNCHANGED <<session, connectionType, connected, sock, listeners, ready, now, hist>>

(* setAttribute(classId, instanceId, attributeId, value) *)
SetAttribute(t, n, ids, value) ==
  /\ CanStart(t, n)
  /\ CanWrite
  /\ LET c == [NewCall("setAttribute") EXCEPT !.ids = ids]
         path == BuildObjectPath(ids[1], ids[2], ids[3])
         requestData == EncodeData(NumberValue(value), DT_DINT, FALSE)
         packet == CipRequestMessage(SET_ATTRIBUTES, path.res, requestData.res)
     IN  IF path.err # "none"
         THEN /\ calls' = [calls EXCEPT ![t] = Done(c, path)]
              /\ sent' = sent
         ELSE IF requestData.err # "none"
         THEN /\ calls' = [calls EXCEPT ![t] = Done(c, requestData)]
              /\ sent' = sent
         ELSE /\ calls' = [calls EXCEPT ![t] = Send(c, packet)]
              /\ sent' = Written(c.op, packet)
  /\ UNCHANGED <<session, connectionType, connected, sock, listeners, ready, now, hist>>

(* SecureCIPClient.validateObjectIds: the first id, in argument order, that *)
(* is not an integer in [0, 65535] (an absent id is not an integer)         *)
InvalidObjectId(id) == id = Undefined \/ id[1] < 0 \/ id[1] > 65535

ValidateObjectIds(ids) ==
  IF \E i \in 1..Len(ids) : InvalidObjectId(ids[i])
  THEN ThrowMsg("InvalidObjectId",
                <<CHOOSE i \in 1..Len(ids) :
                    InvalidObjectId(ids[i]) /\ \A j \in 1..(i - 1) : ~InvalidObjectId(ids[j])>>)
  ELSE Return(<<>>)

(* safeGetAttribute(classId, instanceId, attributeId) up to its await: the  *)
(* validation, the path and the send of sendCipRequest                      *)
SafeGetAttribute(t, n, ids) ==
  /\ CanStart(t, n)
  /\ CanWrite
  /\ LET c == [NewCall("safeGetAttribute") EXCEPT !.ids = ids]
         valid == ValidateObjectIds(ids)
         path == BuildObjectPath(ids[1], ids[2], ids[3])
         packet == CipRequestMessage(GET_ATTRIBUTES, path.res, <<>>)
     IN  IF valid.err # "none"
         THEN /\ calls' = [calls EXCEPT ![t] = Done(c, valid)]
              /\ sent' = sent
         ELSE IF path.err # "none"
         THEN /\ calls' = [calls EXCEPT ![t] = Done(c, path)]
              /\ sent' = sent
         ELSE /\ calls' = [calls EXCEPT ![t] = Send(c, packet)]
              /\ sent' = Written(c.op, packet)
  /\ UNCHANGED <<session, connectionType, connected, sock, listeners, ready, now, hist>>

(* The attribute ids getIdentityInfo reads, in the order of its awaits *)
IdentityReads == <<1, 3, 6>>

(* The arguments of read number k: getAttribute(IDENTITY, 0x01, id) *)
IdentityIds(k) == <<Some(IDENTITY), Some(1), Some(IdentityReads[k])>>

(* The message of read number k *)
IdentityRequest(k) ==
  CipRequestMessage(GET_ATTRIBUTES,
                    BuildObjectPath(IdentityIds(k)[1], IdentityIds(k)[2], IdentityIds(k)[3]).res,
                    <<>>)

(* getIdentityInfo() up to its first await: the first getAttribute *)
GetIdentityInfo(t, n) ==
  /\ CanStart(t, n)
  /\ CanWrite
  /\ LET c == [NewCall("getIdentityInfo") EXCEPT !.ids = IdentityIds(1)]
     IN  /\ calls' = [calls EXCEPT ![t] = Send(c, IdentityRequest(1))]
         /\ sent' = Written(c.op, IdentityRequest(1))
  /\ UNCHANGED <<session, connectionType, connected, sock, listeners, ready, now, hist>>

(***************************************************************************)
(* The continuations.                                                      *)
(***************************************************************************)
RoundTrips ==
  {"establishSecureSession", "sendCipRequest", "getAttribute", "setAttribute",
   "getIdentityInfo", "safeGetAttribute"}

(* Mutant: the catch block rethrows the error as it caught it. *)
Rethrow_Unmarked(c) == c

(* The catch block of safeGetAttribute: an error of the request or of the  *)
(* parsing gets the three ids as its metadata and is thrown again.         *)
Rethrow(c) ==
  IF c.op = "safeGetAttribute" /\ c.err # "none" THEN [c EXCEPT !.meta = <<c.ids>>] ELSE c

(* Mutant: a failed send is issued again. *)
AfterSendFailure_Retry(c) == [c EXCEPT !.sends = c.sends + 1]

(* A rejected send ends the method that awaits it: no method catches the   *)
(* rejection (gracefulShutdown apart) and none sends again.                *)
AfterSendFailure(c) == Rethrow(Done(c, Throw("TransportError")))

(* Mutant: sendSecureData updates lastActivity whatever the send did. *)
LastActivityAfterSend_Always(op, sendOk) ==
  IF op = "sendSecureData" THEN now ELSE lastActivity

(* lastActivity after the send of method op has resolved (sendOk) or       *)
(* rejected: sendSecureData assigns Date.now() in the statement after its   *)
(* await this.send, which a rejection skips.                               *)
LastActivityAfterSend(op, sendOk) ==
  IF op = "sendSecureData" /\ sendOk THEN now ELSE lastActivity

(* The callback of client.write resolves or rejects the promise of send,   *)
(* and the method goes on to its next await or to its end.  The socket     *)
(* calls the write callbacks in the order of the writes.                   *)
SendCallback(t) ==
  /\ Quiet
  /\ calls[t].pc = "send"
  /\ \A u \in Slots : (u # t /\ calls[u].pc = "send") => calls[u].ord > calls[t].ord
  /\ LET c == calls[t]
     IN  CASE c.op = "gracefulShutdown" ->
                \* success or caught failure: the finally block
                /\ calls' = [calls EXCEPT ![t] = Done(c, ShutdownOutcome(c.wok))]
                /\ sock' = Destroyed
                /\ sessionActive' = FALSE
                /\ hist' = [hist EXCEPT !.closed = TRUE]
                /\ UNCHANGED <<lastActivity, listeners>>
           [] c.op # "gracefulShutdown" /\ ~c.wok ->
                /\ calls' = [calls EXCEPT ![t] = AfterSendFailure(c)]
                /\ lastActivity' = LastActivityAfterSend(c.op, FALSE)
                /\ UNCHANGED <<sock, sessionActive, listeners, hist>>
           [] c.op = "sendSecureData" /\ c.wok ->
                /\ calls' = [calls EXCEPT ![t] = Done(c, Return(<<>>))]
                /\ lastActivity' = LastActivityAfterSend(c.op, TRUE)
                /\ UNCHANGED <<sock, sessionActive, listeners, hist>>
           [] c.op \in RoundTrips /\ c.wok ->
                /\ calls' = [calls EXCEPT ![t] = Receive(c)]
                /\ listeners' = Append(listeners, t)
                /\ UNCHANGED <<sock, sessionActive, lastActivity, hist>>
  /\ UNCHANGED <<sessionNonce, sessionHandle, sequenceNumber, connectionType,
                 connected, sent, ready, now>>

(* The replies the peer may send: secure replies (header, payload, four    *)
(* reserved bytes, MAC), encapsulated CIP replies and short chunks.        *)
ReplyHeader(handle, status) ==
  CopyInto(CopyInto(CopyInto(Alloc(HEADER_LENGTH), 0, U16LE(SEND_RRDATA)),
                    4, U32LE(handle)), 8, U32LE(status))

SecureReply(handle, payload, mac) == ReplyHeader(handle, 0) \o payload \o Alloc(4) \o mac

Payloads == {Alloc(8), <<0, 0, 0, 0, 1, 0, 0, 0>>, <<7, 9>>}

CipBodies == {<<0>>, <<1>>, <<0, 0, 0, 196, 210, 4, 0, 0>>}

Replies ==
  {SecureReply(h, p, IF good THEN HmacTrunc(sessionNonce, p) ELSE Alloc(MAC_LENGTH)) :
     h \in {0, 1}, p \in Payloads, good \in BOOLEAN}
  \cup {ReplyHeader(0, st) \o b : st \in {0, 300}, b \in CipBodies}
  \cup {Alloc(8), <<0, 0, 0, 0, 1, 0, 0, 0>>, Alloc(23), Alloc(30)}

(* A 'data' event: every registered once-listener is called with the chunk *)
(* and removed; each resolves the promise of its receive.                  *)
Deliver ==
  /\ Quiet
  /\ sock = "open"
  /\ listeners # <<>>
  /\ \E d \in Replies :
       calls' = [t \in Slots |->
                   IF calls[t].pc = "recv"
                   THEN [calls[t] EXCEPT !.pc = "resume", !.data = d]
                   ELSE calls[t]]
  /\ ready' = listeners
  /\ listeners' = <<>>
  /\ UNCHANGED <<session, connectionType, connected, sock, sent, now, hist>>

(* Mutant: the timer leaves the listener registered. *)
RemoveListener_Kept(ls, t) == ls

(* this.client.removeListener("data", onData) *)
RemoveListener(ls, t) == SelectSeq(ls, LAMBDA u : u # t)

(* The timer of receive fires: the listener is removed, the promise rejects *)
Timeout(t) ==
  /\ Quiet
  /\ calls[t].pc = "recv"
  /\ calls' = [calls EXCEPT ![t] = Rethrow(Done(calls[t], Throw("TimeoutError")))]
  /\ listeners' = RemoveListener(listeners, t)
  /\ hist' = IF hist.watch THEN [hist EXCEPT !.timedOut = TRUE] ELSE hist
  /\ UNCHANGED <<session, connectionType, connected, sock, sent, ready, now>>

(* A 'data' event after a receive has timed out and while no listener is   *)
(* registered: the socket, which has been flowing since its first listener *)
(* was added, emits the chunk and nothing is called.                       *)
LateReply ==
  /\ Quiet
  /\ sock = "open"
  /\ listeners = <<>>
  /\ hist.timedOut
  /\ hist.unheard < MaxUnheard
  /\ hist' = [hist EXCEPT !.unheard = hist.unheard + 1]
  /\ UNCHANGED <<session, connectionType, connected, sock, sent, listeners, ready, calls, now>>

(* Mutant: a reply whose four bytes before the MAC differ from the         *)
(* sequence counter is rejected.                                           *)
ReceiveOutcome_SequenceChecked(response) ==
  LET validated == ValidateReply(response, sessionHandle, sessionNonce)
  IN  IF validated.err = "none"
         /\ ReadUInt32LE(response, Len(response) - 12) # sequenceNumber
      THEN Throw("SequenceMismatch")
      ELSE validated

(* receiveWithValidation after its reply: the three checks against         *)
(* this.sessionHandle and this.sessionNonce                                *)
ReceiveOutcome(response) == ValidateReply(response, sessionHandle, sessionNonce)

(* establishSecureSession after its reply: the outcome and, on success,    *)
(* the session handle read from the validated response.                    *)
EstablishOutcome(response) ==
  LET validated == ValidateReply(response, sessionHandle, sessionNonce)
      checked == ValidateSessionResponse(validated.res)
  IN  IF validated.err # "none" THEN validated
      ELSE IF checked.err # "none" THEN checked
      ELSE Return(<<>>)

EstablishedHandle(response) ==
  ReadUInt32LE(Slice(Slice(response, 24, -12), 4, 8), 0)

(* Mutant: the handshake resets the sequence counter before it validates   *)
(* the reply.                                                              *)
SessionAfterReply_ResetFirst(op, r, response) ==
  IF op = "establishSecureSession"
  THEN [handle |-> IF r.err = "none" THEN EstablishedHandle(response) ELSE sessionHandle,
        seq |-> 0, active |-> r.err = "none"]
  ELSE [handle |-> sessionHandle, seq |-> sequenceNumber, active |-> sessionActive]

(* The session fields after the continuation of op has ended with outcome  *)
(* r: only a successful handshake assigns them.                            *)
SessionAfterReply(op, r, response) ==
  IF op = "establishSecureSession" /\ r.err = "none"
  THEN [handle |-> EstablishedHandle(response), seq |-> 0, active |-> TRUE]
  ELSE [handle |-> sessionHandle, seq |-> sequenceNumber, active |-> sessionActive]

(* getAttribute and setAttribute after the reply of their sendCipRequest *)
AttributeOutcome(op, response) ==
  LET cip == CheckEncapReply(response)
  IN  IF cip.err # "none" \/ op = "sendCipRequest" THEN cip
      ELSE IF op = "getAttribute" THEN ParseAttributeResponse(Buffer(cip.res), FALSE)
      ELSE ParseSetAttributeResponse(Buffer(cip.res))

(* getIdentityInfo after a read has returned: the value is kept and the     *)
(* next getAttribute is called.                                            *)
NextIdentityRead(c, r) ==
  Send([c EXCEPT !.ids = IdentityIds(c.sends + 1),
                 !.args = Append(c.args, r.res[1].value),
                 !.data = <<>>],
       IdentityRequest(c.sends + 1))

(* The object getIdentityInfo returns after its third read *)
IdentityInfo(values) ==
  Return(<<[vendorId |-> values[1], productCode |-> values[2], serialNumber |-> values[3]]>>)

(* The continuation of the call at the head of the ready queue.  A failed  *)
(* read of getIdentityInfo ends it with the error of the read.             *)
Continue(t) ==
  /\ Settled
  /\ ready # <<>>
  /\ t = Head(ready)
  /\ ready' = Tail(ready)
  /\ LET c == calls[t]
         r == CASE c.op = "establishSecureSession" -> EstablishOutcome(c.data)
                [] c.op = "receiveWithValidation" -> ReceiveOutcome(c.data)
                [] c.op \in {"getIdentityInfo", "safeGetAttribute"} ->
                     AttributeOutcome("getAttribute", c.data)
                [] OTHER -> AttributeOutcome(c.op, c.data)
         after == SessionAfterReply(c.op, r, c.data)
         read == c.op = "getIdentityInfo" /\ r.err = "none"
     IN  /\ (read /\ c.sends < Len(IdentityReads)) => CanWrite
         /\ calls' = [calls EXCEPT ![t] =
                        IF ~read THEN Rethrow(Done(c, r))
                        ELSE IF c.sends < Len(IdentityReads) THEN NextIdentityRead(c, r)
                        ELSE Done(c, IdentityInfo(Append(c.args, r.res[1].value)))]
         /\ sent' = IF read /\ c.sends < Len(IdentityReads)
                    THEN Written(c.op, IdentityRequest(c.sends + 1))
                    ELSE sent
         /\ sessionHandle' = after.handle
         /\ sequenceNumber' = after.seq
         /\ sessionActive' = after.active
         /\ hist' = IF c.op = "establishSecureSession" /\ r.err = "none"
                    THEN [hist EXCEPT !.passes = 0]
                    ELSE hist
  /\ UNCHANGED <<sessionNonce, lastActivity, connectionType, connected, sock, listeners, now>>

(* The caller receives the result or the error of a call that has ended.   *)
Complete(t) ==
  /\ calls[t].pc = "done"
  /\ calls' = [u \in Slots |->
                 IF u = t THEN NoCall
                 ELSE IF InFlight(u) THEN [calls[u] EXCEPT !.ord = 1]
                 ELSE calls[u]]
  /\ UNCHANGED <<session, connectionType, connected, sock, sent, listeners, ready, now, hist>>

(***************************************************************************)
(* The synchronous methods, called on their own: each call records its     *)
(* arguments and ends at once with what the method returns or throws.      *)
(***************************************************************************)
Returned(t, name, args, r) ==
  /\ CanStart(t, 1)
  /\ calls' = [calls EXCEPT ![t] = Done([NewCall(name) EXCEPT !.args = args], r)]
  /\ UNCHANGED <<session, connectionType, connected, sock, sent, listeners, ready, now, hist>>

(* client.buildEncapMessage(command, data) on a client whose sessionHandle, *)
(* senderContext and connectionParams fields hold the given values          *)
BuildEncapMessageCall(t, command, data, handle, senderContext, params) ==
  Returned(t, "buildEncapMessage", <<command, data, handle, senderContext, params>>,
           Return(BuildEncapMessage(command, data, handle, senderContext, params)))

(* CIPParser.buildObjectPath(classId, instanceId, attributeId) *)
BuildObjectPathCall(t, classId, instanceId, attributeId) ==
  Returned(t, "buildObjectPath", <<classId, instanceId, attributeId>>,
           BuildObjectPath(classId, instanceId, attributeId))

(* CIPParser.parseAttributeResponse(response, isBigEndian) *)
ParseAttributeResponseCall(t, response, isBigEndian) ==
  Returned(t, "parseAttributeResponse", <<response, isBigEndian>>,
           ParseAttributeResponse(response, isBigEndian))

(* CIPParser.parseSetAttributeResponse(response) *)
ParseSetAttributeResponseCall(t, response) ==
  Returned(t, "parseSetAttributeResponse", <<response>>,
           ParseSetAttributeResponse(response))

(* decode(typeCode, encodeData(value, dataType, isBigEndian), isBigEndian): *)
(* the encoding is kept in buf.                                            *)
RoundTripCall(t, value, typeCode, isBigEndian) ==
  LET encoded == EncodeData(value, typeCode, isBigEndian)
      decoded == Decode(typeCode, encoded.res, isBigEndian)
      c == [NewCall("roundTrip") EXCEPT !.args = <<value, typeCode, isBigEndian>>,
                                        !.buf = encoded.res]
  IN  /\ CanStart(t, 1)
      /\ calls' = [calls EXCEPT ![t] =
                     IF encoded.err # "none" THEN Done(c, encoded)
                     ELSE IF decoded.err # "none" THEN Done(c, decoded)
                     ELSE Done(c, Return(<<decoded.res>>))]
      /\ UNCHANGED <<session, connectionType, connected, sock, sent, listeners, ready, now,
                     hist>>

(* CIPDataTypeDecoder.decode(typeCode, data, isBigEndian) *)
DecodeCall(t, typeCode, data, isBigEndian) ==
  LET decoded == Decode(typeCode, data, isBigEndian)
  IN  Returned(t, "decode", <<typeCode, data, isBigEndian>>,
               IF decoded.err # "none" THEN decoded ELSE Return(<<decoded.res>>))

(* CIPErrorParser.parse(statusCode, extendedStatus = 0) of copy number     *)
(* `copy` of cipErrorCodes.js                                              *)
ErrorParseCall(t, copy, statusCode, extendedStatus) ==
  Returned(t, "CIPErrorParser.parse", <<copy, statusCode, extendedStatus>>,
           Return(<<ErrorParseIn(Catalogs[copy], statusCode,
                                 IF extendedStatus = Undefined THEN 0
                                 ELSE extendedStatus[1])>>))

(***************************************************************************)
(* The specifications.  Each keeps the contract of one request in flight   *)
(* per client: a call starts when the previous one has resolved.           *)
(***************************************************************************)
DataInputs == {<<>>, <<5, 6>>}

IdInputs == {<<Some(1), Some(1), Some(1)>>, <<Undefined, Undefined, Undefined>>}

ValueInputs == {1234}

SecureCalls(n, inputs) ==
  \E t \in Slots :
    \/ EstablishSecureSession(t, n)
    \/ \E data \in inputs : SendSecureData(t, n, data)
    \/ ReceiveWithValidation(t, n)
    \/ GracefulShutdown(t, n)

CipCalls(n) ==
  \E t \in Slots :
    \/ SendCipRequest(t, n, GET_ATTRIBUTES, <<SEG_CLASS, IDENTITY>>, <<>>)
    \/ \E ids \in IdInputs : GetAttribute(t, n, ids)
    \/ \E ids \in IdInputs, value \in ValueInputs : SetAttribute(t, n, ids, value)

Socket ==
  \/ Connect
  \/ PeerClose
  \/ SocketClosed
  \/ Deliver

Caller ==
  \/ \E type \in {TYPE_PT2PT, TYPE_MULTICAST} : SetConnectionType(type)
  \/ Tick

Continuations ==
  \E t \in Slots :
    \/ SendCallback(t)
    \/ Timeout(t)
    \/ Continue(t)
    \/ Complete(t)

(* The secure session layer *)
Next == SecureCalls(1, DataInputs) \/ Socket \/ Caller \/ Continuations

Spec == Init /\ [][Next]_vars

(* The handshake and the validated receive *)
RecvCalls(n) ==
  \E t \in Slots :
    \/ EstablishSecureSession(t, n)
    \/ ReceiveWithValidation(t, n)
    \/ GracefulShutdown(t, n)

NextRecv == RecvCalls(1) \/ Socket \/ Continuations

SpecRecv == Init /\ [][NextRecv]_vars

(* The CIP request layer *)
NextCip == CipCalls(1) \/ Socket \/ Continuations

SpecCip == Init /\ [][NextCip]_vars

(* The inputs of the synchronous methods *)
REDUNDANT_OWNER == 32768

PRIOR_LOW == 0

PRIOR_HIGH == 1024

PRIOR_URGENT == 3072

(* owner | type | priority for every setting of the three fields *)
ParamSettings ==
  {owner + type + priority :
     owner \in {EXCLUSIVE_OWNER, REDUNDANT_OWNER},
     type \in {TYPE_NULL, TYPE_MULTICAST, TYPE_PT2PT},
     priority \in {PRIOR_LOW, PRIOR_HIGH, PRIOR_SCHED, PRIOR_URGENT}}

CommandInputs == {0, SEND_RRDATA, 65535}

PayloadInputs == {<<>>, <<84, 101, 115, 116>>}

HandleInputs == {0, 305419896}

ContextInputs == {Alloc(8), <<65, 66, 67, 68, 69, 70, 71, 72>>}

IdValues == {Undefined, Some(-1), Some(0), Some(1), Some(300), Some(65535), Some(70000)}

ResponseBytes ==
  { <<>>, <<0>>, <<1>>, <<0, 0, 196>>, <<8, 1, 2>>, <<8, 1, 2, 3>>, <<36, 0, 0, 0>>,
    <<0, 0, 193, 1>>, <<0, 0, 194, 255>>, <<0, 0, 195, 254, 255>>,
    <<0, 0, 196, 1, 2, 3, 4>>, <<0, 0, 196, 255, 255, 255, 255>>, <<0, 0, 196, 1, 2>>,
    <<0, 0, 202, 0, 0, 128, 63>>, <<0, 0, 218, 2, 65, 66, 67>>,
    <<0, 0, 203, 1, 2, 3, 4, 5, 6, 7, 8>>, <<0, 18, 52, 9>>,
    <<0, 0, 224, 0, 196, 0, 0>>, <<0, 0, 224, 0, 196, 0, 2, 1, 0, 0, 0, 2, 0, 0, 0>>,
    <<0, 0, 224, 0, 203, 0, 2>>, <<0, 0, 225, 0, 0>>, <<0, 0, 225, 0, 1, 0, 203>>,
    <<0, 0, 225, 0, 1, 0, 196, 1, 0, 0, 0>>, <<0, 0, 225, 0, 2, 0, 203>> }

ResponseInputs == {NotABuffer} \cup {Buffer(b) : b \in ResponseBytes}

ParserCalls ==
  \E t \in Slots :
    \/ \E command \in CommandInputs, data \in PayloadInputs, handle \in HandleInputs,
          senderContext \in ContextInputs, params \in ParamSettings :
         BuildEncapMessageCall(t, command, data, handle, senderContext, params)
    \/ \E classId \in IdValues, instanceId \in IdValues, attributeId \in IdValues :
         BuildObjectPathCall(t, classId, instanceId, attributeId)
    \/ \E response \in ResponseInputs, isBigEndian \in BOOLEAN :
         ParseAttributeResponseCall(t, response, isBigEndian)
    \/ \E response \in ResponseInputs : ParseSetAttributeResponseCall(t, response)

(* The framer and the parser, one call at a time *)
NextParser == ParserCalls \/ \E t \in Slots : Complete(t)

SpecParser == Init /\ [][NextParser]_vars

(* The values, types and data handed to the codec *)
IntInputs ==
  {-2147483647 - 1, -16777216, -32769, -32768, -129, -128, -2, -1, 0, 1, 2, 127, 128, 4660,
   32767, 32768, 16777215, 305419896, 2147483647}

StringInputs ==
  {<<>>, <<72, 101, 108, 108, 111, 32, 67, 73, 80>>, [i \in 1..254 |-> 97],
   [i \in 1..255 |-> 97], [i \in 1..256 |-> 97], [i \in 1..300 |-> 97 + (i % 2)]}

CodecInputs ==
  {<<BoolValue(b), DT_BOOL>> : b \in BOOLEAN}
  \cup {<<NumberValue(n), type>> :
          n \in IntInputs,
          type \in {DT_SINT, DT_INT, DT_DINT, DT_REAL, DT_LREAL, DT_ARRAY, 65535}}
  \cup {<<StringValue(chars), DT_STRING>> : chars \in StringInputs}

DecodeInputs ==
  { <<4660, <<1, 2>> >>, <<65535, <<>> >>, <<DT_DINT, <<1, 2, 3, 4>> >>,
    <<DT_LREAL, <<1, 2, 3, 4, 5, 6, 7, 8>> >>,
    <<DT_ARRAY, <<18, 52, 0, 1, 9, 9>> >>, <<DT_ARRAY, <<18, 52, 0, 0>> >>,
    <<DT_ARRAY, <<0, 203, 0, 2, 1, 2>> >>, <<DT_ARRAY, <<0, 196, 0, 1, 1, 0, 0, 0>> >>,
    <<DT_STRUCT, <<0, 1, 18, 52, 7>> >>, <<DT_STRUCT, <<0, 2, 0, 203, 18, 52>> >>,
    <<DT_STRUCT, <<0, 1, 0, 203, 7>> >>, <<DT_STRUCT, <<0, 0>> >>,
    <<DT_ARRAY, <<0, 195, 0, 2, 1, 2, 3, 4>> >>, <<DT_ARRAY, <<0, 195, 0, 0>> >>,
    <<DT_ARRAY, <<0, 193, 0, 3, 1, 0, 255>> >>,
    <<DT_ARRAY, <<0, 203, 0, 1, 1, 2, 3, 4, 5, 6, 7, 8>> >>,
    <<DT_STRUCT, <<0, 1, 0, 195, 1, 2>> >>,
    <<DT_STRUCT, <<0, 2, 0, 194, 255, 0, 196, 1, 2, 3, 4>> >> }

(* The codec, one call at a time *)
NextCodec ==
  \/ \E t \in Slots, in \in CodecInputs, isBigEndian \in BOOLEAN :
       RoundTripCall(t, in[1], in[2], isBigEndian)
  \/ \E t \in Slots, in \in DecodeInputs, isBigEndian \in BOOLEAN :
       DecodeCall(t, in[1], in[2], isBigEndian)
  \/ \E t \in Slots : Complete(t)

SpecCodec == Init /\ [][NextCodec]_vars

(* The status codes and extended statuses handed to CIPErrorParser.parse *)
StatusInputs == (0..50) \cup {96, 97, 98, 250, 251, 252, 254, 255, 256, 4095, 4096, 4097, 65535}

ExtendedInputs == {Undefined, Some(0), Some(4660)}

(* The error catalog, one call at a time *)
NextCatalog ==
  \/ \E t \in Slots, copy \in DOMAIN Catalogs, statusCode \in StatusInputs,
         extendedStatus \in ExtendedInputs :
       ErrorParseCall(t, copy, statusCode, extendedStatus)
  \/ \E t \in Slots : Complete(t)

SpecCatalog == Init /\ [][NextCatalog]_vars

(* safeGetAttribute, one call at a time *)
SafeIdInputs ==
  {<<Some(1), Some(1), Some(1)>>, <<Some(0), Some(65535), Some(300)>>,
   <<Some(-1), Some(2), Some(3)>>, <<Some(1), Some(70000), Some(3)>>,
   <<Some(1), Some(2), Undefined>>, <<Undefined, Undefined, Undefined>>}

NextSafe ==
  \/ \E t \in Slots, ids \in SafeIdInputs : SafeGetAttribute(t, 1, ids)
  \/ Socket
  \/ Continuations

SpecSafe == Init /\ [][NextSafe]_vars

(* getIdentityInfo, one call at a time *)
NextIdentity == (\E t \in Slots : GetIdentityInfo(t, 1)) \/ Socket \/ Continuations

SpecIdentity == Init /\ [][NextIdentity]_vars

(* The secure session layer of a point-to-point client, for one data input *)
NextSession ==
  \/ SecureCalls(1, {<<5, 6>>})
  \/ Socket
  \/ SetConnectionType(TYPE_PT2PT)
  \/ Continuations

SpecSession == Init /\ [][NextSession]_vars

(* The secure session layer of a point-to-point client while time passes *)
NextActivity == NextSession \/ Tick

SpecActivity == Init /\ [][NextActivity]_vars

(* Requests one at a time, their timeouts recorded, with replies that      *)
(* arrive late                                                             *)
NextLate ==
  \/ \E t \in Slots : SendCipRequest(t, 1, GET_ATTRIBUTES, <<SEG_CLASS, IDENTITY>>, <<>>)
  \/ Socket
  \/ LateReply
  \/ Continuations

SpecLate == InitLate /\ [][NextLate]_vars

(* The handshake used concurrently: a second call may start while the     *)
(* first is in flight.                                                     *)
NextHandshake == RecvCalls(2) \/ Socket \/ Continuations

SpecHandshake == Init /\ [][NextHandshake]_vars

(* The connection: connect() and disconnect() as calls, with one kind of   *)
(* request to use the connection                                           *)
NextConn ==
  \/ \E t \in Slots :
       \/ ConnectCall(t)
       \/ ConnectCallback(t)
       \/ ConnectError(t)
       \/ Disconnect(t)
       \/ EndCallback(t)
       \/ SendCipRequest(t, 1, GET_ATTRIBUTES, <<SEG_CLASS, IDENTITY>>, <<>>)
  \/ PeerClose
  \/ SocketClosed
  \/ Deliver
  \/ Continuations

SpecConn == Init /\ [][NextConn]_vars

(* The CIP request layer used against its contract: a second request may   *)
(* start while the first is in flight.                                     *)
NextPair == CipCalls(2) \/ Socket \/ Continuations

SpecPair == Init /\ [][NextPair]_vars

(* Both layers on one client, for one draw of the nonce and one data input *)
InitAll == Init /\ sessionNonce = [i \in 1..16 |-> 17]

NextAll ==
  \/ SecureCalls(1, {<<5, 6>>})
  \/ CipCalls(1)
  \/ Socket
  \/ SetConnectionType(TYPE_PT2PT)
  \/ Continuations

SpecAll == InitAll /\ [][NextAll]_vars

(***************************************************************************)
(* The claims.                                                             *)
(***************************************************************************)
Ended(t, op) == calls[t].op = op /\ calls[t].pc = "done"

(* A call that ended after a 'data' event (a chunk is never empty) *)
GotReply(t) == calls[t].data # <<>>

(* C1: establishSecureSession called while the session is Active fails     *)
(* with SessionAlreadyActive, sends no registration packet and leaves      *)
(* sessionHandle, sequenceNumber and the Active state unchanged.           *)
C1_ActiveSessionRejectsEstablish ==
  \A t \in Slots :
    (Ended(t, "establishSecureSession") /\ calls[t].pre.active)
      => /\ calls[t].err = "SessionAlreadyActive"
         /\ calls[t].sends = 0
         /\ Len(sent) = calls[t].pre.nsent
         /\ sessionHandle = calls[t].pre.handle
         /\ sequenceNumber = calls[t].pre.seq
         /\ sessionActive

C1_Witness ==
  \E t \in Slots :
    /\ Ended(t, "establishSecureSession")
    /\ calls[t].pre.active
    /\ calls[t].err = "SessionAlreadyActive"
    /\ sequenceNumber > 0

(* The sequence number carried by a secure data packet: the four bytes     *)
(* before the MAC.                                                         *)
SequenceOf(packet) == ReadUInt32LE(packet, Len(packet) - 12)

SecureEntries == {i \in 1..Len(sent) : sent[i].op = "sendSecureData"}

(* Two log entries belong to one session when no registration packet was   *)
(* written between them.                                                   *)
SameSession(i, j) ==
  \A m \in i..j : sent[m].op # "establishSecureSession"

(* C2: within one session the k-th sendSecureData call that passes its     *)
(* checks builds a packet carrying sequence number k, and the sequence     *)
(* numbers of the transmitted secure packets are strictly increasing.      *)
C2_SequenceStrictlyIncreasing ==
  /\ \A t \in Slots :
       (calls[t].op = "sendSecureData" /\ calls[t].pc = "send")
         => SequenceOf(calls[t].pkt) = hist.passes
  /\ \A i \in SecureEntries, j \in SecureEntries :
       (i < j /\ SameSession(i, j))
         => SequenceOf(sent[i].bytes) < SequenceOf(sent[j].bytes)

C2_Witness ==
  \E i \in SecureEntries, j \in SecureEntries :
    /\ i < j
    /\ SameSession(i, j)
    /\ SequenceOf(sent[i].bytes) = 1
    /\ SequenceOf(sent[j].bytes) = 2

(* The step in which the continuation of call t of method op runs. *)
Resumes(t, op) ==
  calls[t].op = op /\ calls[t].pc = "resume" /\ calls'[t].pc = "done"

(* A reply of length >= 8 with a zero status word at offset 4 *)
GoodSessionReply(reply) == Len(reply) >= 8 /\ ReadUInt32LE(reply, 4) = 0

(* The errors the spec calls SessionRegistrationFailed: the two throws of  *)
(* validateSessionResponse.                                                *)
RegistrationFailed == {"InvalidSessionResponse", "SessionRegistrationFailed"}

(* The bytes of a reply between its header and its last twelve bytes *)
PayloadOf(reply) ==
  IF Len(reply) - 12 <= 24 THEN <<>> ELSE SubSeq(reply, 25, Len(reply) - 12)

MacOf(reply) == SubSeq(reply, Len(reply) - 7, Len(reply))

(* The error with which the handshake rejects a reply, check by check. *)
HandshakeError(reply) ==
  CASE Len(reply) < 24 -> "InvalidLength"
    [] Len(reply) >= 24 /\ ReadUInt32LE(reply, 4) # sessionHandle -> "SessionHandleMismatch"
    [] Len(reply) >= 24 /\ ReadUInt32LE(reply, 4) = sessionHandle
         /\ MacOf(reply) # HmacTrunc(sessionNonce, PayloadOf(reply)) -> "SecurityError"
    [] OTHER -> IF Len(PayloadOf(reply)) < 8 THEN "InvalidSessionResponse"
                ELSE IF ReadUInt32LE(PayloadOf(reply), 4) # 0 THEN "SessionRegistrationFailed"
                ELSE "none"

BecomesActive == ~sessionActive /\ sessionActive'

(* C3 as claimed: every reply other than one of length >= 8 with a zero    *)
(* status word at offset 4 fails with SessionRegistrationFailed.           *)
C3_Original ==
  [][/\ BecomesActive =>
          \E t \in Slots :
            /\ Resumes(t, "establishSecureSession")
            /\ calls[t].sends = 1 /\ calls[t].wok
            /\ GoodSessionReply(calls[t].data)
     /\ \A t \in Slots :
          Resumes(t, "establishSecureSession") =>
            IF GoodSessionReply(calls[t].data)
            THEN calls'[t].err = "none" =>
                   /\ sequenceNumber' = 0
                   /\ sessionHandle' = ReadUInt32LE(calls[t].data, 4)
            ELSE /\ calls'[t].err \in RegistrationFailed
                 /\ ~sessionActive']_vars

(* C3, amended: the session becomes Active only through                    *)
(* establishSecureSession after a registration packet was sent and a reply *)
(* of length >= 8 with a zero status word at offset 4 was received; a      *)
(* reply is accepted only if it also passes receiveWithValidation and its  *)
(* payload has length >= 8 and a zero status word at offset 4, and any     *)
(* other reply makes the call fail with InvalidLength,                     *)
(* SessionHandleMismatch, SecurityError or SessionRegistrationFailed       *)
(* (the first check that fails) and leaves the session not Active.  On     *)
(* success the sequence counter is 0 and sessionHandle equals the u32 at   *)
(* bytes 4-8 of the reply.                                                 *)
C3_HandshakeValidation ==
  [][/\ BecomesActive =>
          \E t \in Slots :
            /\ Resumes(t, "establishSecureSession")
            /\ calls[t].sends = 1 /\ calls[t].wok
            /\ GoodSessionReply(calls[t].data)
            /\ HandshakeError(calls[t].data) = "none"
     /\ \A t \in Slots :
          Resumes(t, "establishSecureSession") =>
            /\ calls'[t].err = HandshakeError(calls[t].data)
            /\ IF calls'[t].err = "none"
               THEN /\ sessionActive'
                    /\ sequenceNumber' = 0
                    /\ sessionHandle' = ReadUInt32LE(calls[t].data, 4)
               ELSE /\ sessionActive' = sessionActive
                    /\ ~sessionActive']_vars

C3_Witness ==
  \E t \in Slots :
    /\ Ended(t, "establishSecureSession")
    /\ GotReply(t)
    /\ calls[t].err = "none"
    /\ sessionActive
    /\ calls[t].pre.seq > 0
    /\ sequenceNumber = 0

(* C4: gracefulShutdown never raises and always ends with the transport    *)
(* destroyed and the session not Active, whether or not the session was    *)
(* Active and whether the unregister send succeeded or failed.             *)
C4_ShutdownAlwaysCloses ==
  \A t \in Slots :
    Ended(t, "gracefulShutdown")
      => /\ calls[t].err = "none"
         /\ sock = "destroyed"
         /\ ~sessionActive

C4_Witness ==
  \E t \in Slots :
    /\ Ended(t, "gracefulShutdown")
    /\ calls[t].pre.active
    /\ calls[t].sends = 1
    /\ ~calls[t].wok
    /\ sock = "destroyed"

(* C5: Closed is terminal: once a gracefulShutdown has completed the       *)
(* session is never Active again.                                          *)
C5_ClosedIsTerminal == hist.closed => ~sessionActive

(* C6: receiveWithValidation checks length, then handle, then MAC: a reply *)
(* shorter than 24 bytes fails InvalidLength, a reply of at least 24 bytes *)
(* whose u32 at bytes 4-8 differs from sessionHandle fails                 *)
(* SessionHandleMismatch even when its MAC is valid, and neither returns a *)
(* payload.                                                                *)
C6_LengthThenHandleThenMac ==
  \A t \in Slots :
    (Ended(t, "receiveWithValidation") /\ GotReply(t))
      => /\ Len(calls[t].data) < 24 => calls[t].err = "InvalidLength"
         /\ (Len(calls[t].data) >= 24 /\ ReadUInt32LE(calls[t].data, 4) # sessionHandle)
              => calls[t].err = "SessionHandleMismatch"

C6_Witness ==
  \E t \in Slots :
    /\ Ended(t, "receiveWithValidation")
    /\ Len(calls[t].data) >= 36
    /\ ReadUInt32LE(calls[t].data, 4) # sessionHandle
    /\ MacOf(calls[t].data) = HmacTrunc(sessionNonce, PayloadOf(calls[t].data))
    /\ calls[t].err = "SessionHandleMismatch"

(* byte b with bit k inverted *)
FlipBit(b, k) == IF (b \div (2 ^ k)) % 2 = 1 THEN b - 2 ^ k ELSE b + 2 ^ k

(* reply with bit k of its byte at index i inverted *)
Altered(reply, i, k) == [reply EXCEPT ![i] = FlipBit(reply[i], k)]

(* C7: receiveWithValidation returns a payload only if the last 8 bytes of *)
(* the reply are the truncated HMAC of that payload under the session      *)
(* nonce, and the accepted reply with any single payload bit inverted (MAC *)
(* kept) fails with SecurityError.                                         *)
C7_PayloadAuthenticated ==
  \A t \in Slots :
    (Ended(t, "receiveWithValidation") /\ calls[t].err = "none")
      => /\ calls[t].res = PayloadOf(calls[t].data)
         /\ MacOf(calls[t].data) = HmacTrunc(sessionNonce, calls[t].res)
         /\ \A i \in 25..(Len(calls[t].data) - 12), k \in 0..7 :
              ValidateReply(Altered(calls[t].data, i, k), sessionHandle, sessionNonce).err
                = "SecurityError"

C7_Witness ==
  \E t \in Slots :
    /\ Ended(t, "receiveWithValidation")
    /\ calls[t].err = "none"
    /\ Len(calls[t].res) = 8
    /\ sessionActive

(* C8: sendSecureData fails NotPointToPoint when the connection type is    *)
(* not point-to-point and, that check passed, SessionNotActive when the    *)
(* session is not Active; in both cases nothing is transmitted and         *)
(* sequenceNumber and lastActivity are unchanged.                          *)
C8_SecureDataPreconditions ==
  \A t \in Slots :
    Ended(t, "sendSecureData")
      => LET pre == calls[t].pre
         IN  /\ pre.type # Some(TYPE_PT2PT) => calls[t].err = "NotPointToPoint"
             /\ (pre.type = Some(TYPE_PT2PT) /\ ~pre.active)
                  => calls[t].err = "SessionNotActive"
             /\ (pre.type # Some(TYPE_PT2PT) \/ ~pre.active)
                  => /\ calls[t].sends = 0
                     /\ Len(sent) = pre.nsent
                     /\ sequenceNumber = pre.seq
                     /\ lastActivity = pre.last

C8_Witness ==
  \E t \in Slots :
    /\ Ended(t, "sendSecureData")
    /\ calls[t].err = "SessionNotActive"
    /\ sequenceNumber > 0
    /\ lastActivity < now

(* The methods C9 is about *)
RequestMethods ==
  {"establishSecureSession", "receiveWithValidation", "sendCipRequest", "getAttribute",
   "setAttribute"}

(* The step in which call t fails on a reply or on the timeout of receive. *)
FailsOnReply(t) ==
  /\ calls[t].op \in RequestMethods
  /\ calls[t].pc \in {"recv", "resume"}
  /\ calls'[t].pc = "done"
  /\ calls'[t].err # "none"

(* C9: a request method that fails on a malformed reply, a receive timeout *)
(* or a nonzero status aborts only itself: the session state (active flag, *)
(* handle, sequence number, nonce) is then what it was before the call,    *)
(* and the failure leaves the transport's connected state as it was.       *)
C9_FailureLeavesSessionAndTransport ==
  [][\A t \in Slots :
       FailsOnReply(t) =>
         /\ sessionActive' = calls[t].pre.active
         /\ sessionHandle' = calls[t].pre.handle
         /\ sequenceNumber' = calls[t].pre.seq
         /\ sessionNonce' = calls[t].pre.nonce
         /\ UNCHANGED <<sessionActive, sessionHandle, sequenceNumber, sessionNonce>>
         /\ UNCHANGED <<connected, sock>>]_vars

C9_Witness ==
  \E t \in Slots :
    /\ Ended(t, "establishSecureSession")
    /\ calls[t].err = "SessionRegistrationFailed"
    /\ sequenceNumber > 0
    /\ connected

(* The u32 status word at offset 8 of a reply that has one *)
StatusOf(reply) == ReadUInt32LE(reply, 8)

BytesFrom24(reply) == IF Len(reply) <= 24 THEN <<>> ELSE SubSeq(reply, 25, Len(reply))

(* C10 as claimed: a nonzero status word fails with EncapsulationError and *)
(* every other reply is returned from offset 24 onward.                    *)
C10_Original ==
  \A t \in Slots :
    (Ended(t, "sendCipRequest") /\ GotReply(t))
      => IF Len(calls[t].data) >= 12 /\ StatusOf(calls[t].data) # 0
         THEN /\ calls[t].err = "EncapsulationError"
              /\ calls[t].msg
                   = <<"EtherNet/IP Error: 0x">> \o ToHex(StatusOf(calls[t].data))
         ELSE /\ calls[t].err = "none"
              /\ calls[t].res = BytesFrom24(calls[t].data)

(* C10, amended: for a reply of at least 12 bytes sendCipRequest fails     *)
(* with EncapsulationError (the message holding the status in hex) when    *)
(* the u32 status word at offset 8 is nonzero and otherwise returns        *)
(* exactly the reply bytes from offset 24 onward; a reply shorter than 12  *)
(* bytes has no status word and fails with a RangeError.                   *)
C10_EncapStatusChecked ==
  \A t \in Slots :
    (Ended(t, "sendCipRequest") /\ GotReply(t))
      => CASE Len(calls[t].data) < 12 -> calls[t].err = "RangeError"
           [] Len(calls[t].data) >= 12 /\ StatusOf(calls[t].data) # 0 ->
                /\ calls[t].err = "EncapsulationError"
                /\ calls[t].msg
                     = <<"EtherNet/IP Error: 0x">> \o ToHex(StatusOf(calls[t].data))
           [] OTHER ->
                /\ calls[t].err = "none"
                /\ calls[t].res = BytesFrom24(calls[t].data)

C10_Witness ==
  \E t \in Slots :
    /\ Ended(t, "sendCipRequest")
    /\ Len(calls[t].data) >= 12
    /\ StatusOf(calls[t].data) = 300
    /\ calls[t].err = "EncapsulationError"
    /\ calls[t].msg = <<"EtherNet/IP Error: 0x", "1", "2", "c">>

(* The methods that issue a sendCipRequest *)
CipRequestOps == {"sendCipRequest", "getAttribute", "setAttribute"}

(* C11: there is no retry: a sendCipRequest performs exactly one transport *)
(* send followed by at most one receive, and a failed send, a receive      *)
(* timeout or a failed status check ends the call with that failure and    *)
(* with no further send or receive.                                        *)
C11_NoRetry ==
  \A t \in Slots :
    calls[t].op \in CipRequestOps
      => /\ calls[t].sends <= 1
         /\ calls[t].recvs <= calls[t].sends
         /\ Len(sent) <= calls[t].pre.nsent + 1
         /\ calls[t].pc \in {"recv", "resume"} => calls[t].sends = 1 /\ calls[t].recvs = 1
         /\ Ended(t, "sendCipRequest") =>
              /\ calls[t].sends = 1
              /\ calls[t].err = "TransportError" => calls[t].recvs = 0
              /\ calls[t].err \in {"TimeoutError", "EncapsulationError", "RangeError"}
                   => calls[t].recvs = 1

C11_Witness ==
  \E t \in Slots :
    /\ Ended(t, "sendCipRequest")
    /\ calls[t].err = "TimeoutError"
    /\ calls[t].sends = 1
    /\ calls[t].recvs = 1
    /\ Len(sent) = calls[t].pre.nsent + 1

(* C12: replies are matched to requests by arrival order: when a reply     *)
(* arrives while two requests wait for one, it resolves the request that   *)
(* began to wait first, and the other request goes on waiting for the      *)
(* second reply.                                                           *)
C12_RepliesMatchedInArrivalOrder ==
  [][\A t, u \in Slots :
       (listeners = <<t, u>> /\ ready = <<>> /\ ready' # <<>>)
         => /\ calls'[t].pc = "resume"
            /\ calls'[u].pc = "recv"
            /\ listeners' = <<u>>]_vars

(* Call t has a 'data' listener registered. *)
Listening(ls, t) == \E i \in 1..Len(ls) : ls[i] = t

(* C13: a receive that gets no data within its timeout rejects with the    *)
(* timeout error and cancels only its own wait: the transport stays as it  *)
(* is (neither closed nor destroyed), the listeners of other calls stay    *)
(* registered, and no data is ever delivered to the timed-out call; a      *)
(* receive resolved by data is never rejected by its timer.                *)
C13_TimeoutCancelsOnlyItsWait ==
  [][\A t \in Slots :
       /\ (calls[t].pc = "recv" /\ calls'[t].pc = "done")
            => /\ calls'[t].err = "TimeoutError"
               /\ calls'[t].data = <<>>
               /\ UNCHANGED <<sock, connected, sent>>
               /\ \A u \in Slots \ {t} :
                    /\ calls'[u] = calls[u]
                    /\ Listening(listeners', u) <=> Listening(listeners, u)
       /\ calls'[t].pc # "recv" => ~Listening(listeners', t)
       /\ (calls[t].pc = "recv" /\ calls'[t].pc = "resume")
            => /\ calls'[t].data # <<>>
               /\ calls'[t].err = "none"
       /\ (calls'[t].pc = "done" /\ calls'[t].data # <<>>)
            => calls'[t].err # "TimeoutError"]_vars

C13_Witness ==
  \E t \in Slots, u \in Slots :
    /\ calls[t].pc = "done"
    /\ calls[t].err = "TimeoutError"
    /\ sock = "open"
    /\ connected
    /\ calls[u].pc = "recv"
    /\ listeners = <<u>>

(* message.readUInt16LE(off), as the tests read a built message back *)
ReadUInt16LE(buf, off) == buf[off + 1] + 256 * buf[off + 2]

(* C15: the message built by buildEncapMessage is a 24-byte header followed *)
(* by the unmodified payload, and the header reads back as the command      *)
(* (u16 LE at 0), the payload length (u16 LE at 2), the session handle      *)
(* (u32 LE at 4), status 0 (at 8) and the eight sender context bytes (at    *)
(* 12..19), whatever the connection parameters are.                         *)
C15_EncapHeaderReadsBack ==
  \A t \in Slots :
    Ended(t, "buildEncapMessage")
      => LET command == calls[t].args[1]
             data == calls[t].args[2]
             handle == calls[t].args[3]
             senderContext == calls[t].args[4]
             message == calls[t].res
         IN  /\ calls[t].err = "none"
             /\ Len(message) = HEADER_LENGTH + Len(data)
             /\ ReadUInt16LE(message, 0) = command
             /\ ReadUInt16LE(message, 2) = Len(data)
             /\ ReadUInt32LE(message, 4) = handle
             /\ ReadUInt32LE(message, 8) = 0
             /\ SubSeq(message, 13, 20) = senderContext
             /\ SliceFrom(message, HEADER_LENGTH) = data

(* A message built with a nonzero handle, a nonzero context, a payload and *)
(* connection parameters other than the default ones *)
C15_Witness ==
  \E t \in Slots :
    /\ Ended(t, "buildEncapMessage")
    /\ calls[t].args[2] # <<>>
    /\ calls[t].args[3] # 0
    /\ calls[t].args[4] # Alloc(8)
    /\ calls[t].args[5] = REDUNDANT_OWNER + TYPE_MULTICAST + PRIOR_URGENT
    /\ Len(calls[t].res) = HEADER_LENGTH + Len(calls[t].args[2])

(* The arguments of an ended buildObjectPath call *)
IdArgs(t) == calls[t].args

(* A present id that is not an integer in [0, 65535] *)
Offending(id) == id # Undefined /\ (id[1] < 0 \/ id[1] > 65535)

(* The name the error message gives to argument number i *)
FieldName(i) == <<"Class", "Instance", "Attribute">>[i]

(* C16: buildObjectPath fails with a ValidationError naming the offending   *)
(* field whenever any present argument, in any position, is not an integer  *)
(* in [0, 65535], whether or not the other arguments are valid.             *)
C16_AnyInvalidIdRejected ==
  \A t \in Slots :
    (Ended(t, "buildObjectPath") /\ \E i \in 1..3 : Offending(IdArgs(t)[i]))
      => /\ calls[t].err = "ValidationError"
         /\ \E i \in 1..3 : Offending(IdArgs(t)[i]) /\ calls[t].msg = <<FieldName(i)>>

(* The (segment-type byte, id) pair of a present id, nothing for an absent one *)
Pair(type, id) == IF id = Undefined THEN <<>> ELSE <<type, id[1]>>

(* C17: for valid arguments buildObjectPath returns the pairs (segment-type *)
(* byte, id) of the present ids in the order class (0x20), instance (0x24), *)
(* attribute (0x30); it fails with MissingIdentifier exactly when all three *)
(* ids are absent, so a returned path has at least one segment.             *)
C17_PathIsThePairsInOrder ==
  \A t \in Slots :
    Ended(t, "buildObjectPath")
      => LET ids == IdArgs(t)
             absent == \A i \in 1..3 : ids[i] = Undefined
         IN  /\ calls[t].err = "MissingIdentifier" <=> absent
             /\ calls[t].err = "none" => Len(calls[t].res) >= 2
             /\ (~absent /\ \A i \in 1..3 : ~Offending(ids[i]))
                  => /\ calls[t].err = "none"
                     /\ calls[t].res = Pair(SEG_CLASS, ids[1]) \o Pair(SEG_INSTANCE, ids[2])
                                          \o Pair(SEG_ATTRIBUTE, ids[3])

(* The response handed to an ended parser call, and its bytes *)
ResponseArg(t) == calls[t].args[1]

(* C18: parseAttributeResponse returns a result only for a Buffer of four   *)
(* bytes or more whose byte 0 is zero; something that is not a Buffer fails *)
(* with a ResponseFormatError, a Buffer shorter than four bytes with the    *)
(* ResponseFormatError 'Invalid response length', and a nonzero status with *)
(* a ProtocolStatusError that carries the catalog descriptor of the status, *)
(* the big-endian extended status from offset 1 and the response in hex.    *)
C18_ChecksInOrder ==
  \A t \in Slots :
    Ended(t, "parseAttributeResponse")
      => LET isBuffer == ResponseArg(t).kind = "Buffer"
             bytes == ResponseArg(t).bytes
         IN  /\ calls[t].err = "none" => (isBuffer /\ Len(bytes) >= 4 /\ bytes[1] = 0)
             /\ ~isBuffer => calls[t].err = "ResponseFormatError"
             /\ (isBuffer /\ Len(bytes) < 4)
                  => /\ calls[t].err = "ResponseFormatError"
                     /\ calls[t].msg = <<"Invalid response length">>
             /\ (isBuffer /\ Len(bytes) >= 4 /\ bytes[1] # 0)
                  => /\ calls[t].err = "ProtocolStatusError"
                     /\ calls[t].res =
                          <<[descriptor |-> ErrorParse(bytes[1], ReadUInt16BE(bytes, 1)),
                             rawResponse |-> BufferToHex(bytes)]>>

(* C19: for a Buffer of four bytes or more with status 0 the result has the *)
(* big-endian u16 at offset 2 as dataType and the codec's decoding of the   *)
(* bytes from offset 4 as value; when the decoding fails, the call fails    *)
(* with the same error, with those bytes attached in hex.                   *)
C19_TypeAndDecodedValue ==
  \A t \in Slots :
    (/\ Ended(t, "parseAttributeResponse")
     /\ ResponseArg(t).kind = "Buffer"
     /\ Len(ResponseArg(t).bytes) >= 4
     /\ ResponseArg(t).bytes[1] = 0)
      => LET dataType == ReadUInt16BE(ResponseArg(t).bytes, 2)
             data == SliceFrom(ResponseArg(t).bytes, 4)
             decoded == Decode(dataType, data, calls[t].args[2])
         IN  IF decoded.err = "none"
               THEN /\ calls[t].err = "none"
                    /\ calls[t].res = <<[dataType |-> dataType, value |-> decoded.res]>>
             ELSE /\ calls[t].err = decoded.err
                  /\ calls[t].msg = decoded.msg
                  /\ calls[t].res = <<[rawData |-> BufferToHex(data)]>>

(* C20: parseSetAttributeResponse returns {success: true} exactly when its  *)
(* input is a non-empty Buffer whose first byte is 0; an input that is not  *)
(* a Buffer or is empty fails with a ResponseFormatError, and a nonzero     *)
(* first byte fails with the descriptor of that status, tagged with the     *)
(* operation SET_ATTRIBUTE.                                                 *)
C20_SetAttributeResponse ==
  \A t \in Slots :
    Ended(t, "parseSetAttributeResponse")
      => LET isBuffer == ResponseArg(t).kind = "Buffer"
             bytes == ResponseArg(t).bytes
         IN  /\ calls[t].err = "none" <=> (isBuffer /\ Len(bytes) >= 1 /\ bytes[1] = 0)
             /\ calls[t].err = "none" => calls[t].res = <<[success |-> TRUE]>>
             /\ (~isBuffer \/ Len(bytes) = 0) => calls[t].err = "ResponseFormatError"
             /\ (isBuffer /\ Len(bytes) >= 1 /\ bytes[1] # 0)
                  => /\ calls[t].err = "ProtocolStatusError"
                     /\ calls[t].res = <<[descriptor |-> ErrorParse(bytes[1], 0),
                                          operation |-> "SET_ATTRIBUTE"]>>

(* A response with status 8 was refused with the descriptor of status 8 *)
C20_Witness ==
  \E t \in Slots :
    /\ Ended(t, "parseSetAttributeResponse")
    /\ ResponseArg(t) = Buffer(<<8, 1, 2>>)
    /\ calls[t].err = "ProtocolStatusError"
    /\ calls[t].res[1].descriptor.name = "ServiceNotSupported"
    /\ calls[t].res[1].operation = "SET_ATTRIBUTE"

(* A reply that makes getAttribute return: no encapsulation error, and a   *)
(* CIP response that passes the checks and the decoding of the parser.     *)
ReadSucceeds(reply) ==
  /\ reply # <<>>
  /\ CheckEncapReply(reply).err = "none"
  /\ ParseAttributeBody(Buffer(CheckEncapReply(reply).res), FALSE).err = "none"

(* The value getAttribute returns for such a reply *)
ValueRead(reply) ==
  ParseAttributeBody(Buffer(CheckEncapReply(reply).res), FALSE).res[1].value

(* C14: getIdentityInfo issues the reads Identity/1/1, Identity/1/3 and    *)
(* Identity/1/6 in this order, each after the previous one has returned    *)
(* and never more than three; a read that succeeds is followed by the next *)
(* read or, after the third, by the return of {vendorId, productCode,      *)
(* serialNumber}; a read that fails ends the call with a failure.          *)
C14_ThreeSequentialReads ==
  \A t \in Slots :
    calls[t].op = "getIdentityInfo"
      => /\ calls[t].sends <= 3
         /\ calls[t].recvs <= calls[t].sends
         /\ \A k \in 1..(Len(sent) - calls[t].pre.nsent) :
              sent[calls[t].pre.nsent + k].bytes = IdentityRequest(k)
         /\ Ended(t, "getIdentityInfo")
              => /\ ReadSucceeds(calls[t].data)
                   => /\ calls[t].sends = 3
                      /\ calls[t].err = "none"
                      /\ calls[t].res[1].serialNumber = ValueRead(calls[t].data)
                 /\ ~ReadSucceeds(calls[t].data) => calls[t].err # "none"

(* The descriptor an ended CIPErrorParser.parse call returned *)
Descriptor(t) == calls[t].res[1]

(* C21: the descriptor of CIPErrorParser.parse has the given code, the     *)
(* given extended status (0 when none is given), isRecoverable true        *)
(* exactly for the codes 0x02, 0x06 and 0x07, and the name UnknownError    *)
(* for a code that is not in the table.                                    *)
C21_DescriptorEchoesCode ==
  \A t \in Slots :
    Ended(t, "CIPErrorParser.parse")
      => LET copy == calls[t].args[1]
             statusCode == calls[t].args[2]
             extendedStatus == calls[t].args[3]
         IN  /\ calls[t].err = "none"
             /\ Descriptor(t).code = statusCode
             /\ Descriptor(t).extendedCode =
                  (IF extendedStatus = Undefined THEN 0 ELSE extendedStatus[1])
             /\ Descriptor(t).isRecoverable <=> statusCode \in {2, 6, 7}
             /\ statusCode \notin DOMAIN Catalogs[copy]
                  => Descriptor(t).name = "UnknownError"

(* parse(0x07) with no extended status, and the code 0x30 that no table has *)
C21_Witness ==
  \E t \in Slots :
    /\ Ended(t, "CIPErrorParser.parse")
    /\ \/ /\ calls[t].args[2] = 7
          /\ calls[t].args[3] = Undefined
          /\ Descriptor(t).isRecoverable
          /\ Descriptor(t).name = "ConnectionLost"
       \/ /\ calls[t].args[2] = 48
          /\ Descriptor(t).name = "UnknownError"
          /\ Descriptor(t).code = 48

(* The codes the catalog is said to name *)
Catalogued(statusCode) == statusCode \in (0..47) \cup {97, 251, 255} \/ statusCode >= 4096

(* C22: CIPErrorParser.parse never returns UnknownError for a status code  *)
(* in 0x00..0x2F, for 0x61, 0xFB, 0xFF or for a code of the vendor range   *)
(* (0x1000 and above).                                                     *)
C22_CatalogCoversItsRange ==
  \A t \in Slots :
    (Ended(t, "CIPErrorParser.parse") /\ Catalogued(calls[t].args[2]))
      => Descriptor(t).name # "UnknownError"

(* The arguments of an ended round trip decode(T, encode(v, T, be), be) *)
TripValue(t) == calls[t].args[1]

TripType(t) == calls[t].args[2]

TripBigEndian(t) == calls[t].args[3]

(* The integers representable in INT and in DINT *)
IntegerRange(typeCode) ==
  IF typeCode = DT_INT THEN -32768..32767 ELSE (-2147483647 - 1)..2147483647

(* C23: for INT and DINT, an integer v of the type's range and either      *)
(* endianness, decode(T, encode(v, T, be), be) is v, the encoding has the  *)
(* type's size (2 or 4 bytes), and it is the encoding under the other      *)
(* endianness with its bytes in the opposite order.                        *)
C23_IntegerRoundTrip ==
  \A t \in Slots :
    (/\ Ended(t, "roundTrip")
     /\ TripType(t) \in {DT_INT, DT_DINT}
     /\ TripValue(t).num \in IntegerRange(TripType(t)))
      => /\ calls[t].err = "none"
         /\ calls[t].res = <<NumberValue(TripValue(t).num)>>
         /\ Len(calls[t].buf) = (IF TripType(t) = DT_INT THEN 2 ELSE 4)
         /\ calls[t].buf =
              Reverse(EncodeData(TripValue(t), TripType(t), ~TripBigEndian(t)).res)

(* The least INT, little-endian: 00 80 decodes to -32768 *)
C23_Witness ==
  \E t \in Slots :
    /\ Ended(t, "roundTrip")
    /\ TripType(t) = DT_INT
    /\ ~TripBigEndian(t)
    /\ calls[t].buf = <<0, 128>>
    /\ calls[t].res = <<NumberValue(-32768)>>

(* The exponent of the greatest power of two that is at most n (n >= 1) *)
RECURSIVE Log2(_)
Log2(n) == IF n < 2 THEN 0 ELSE 1 + Log2(n \div 2)

RECURSIVE Pow2(_)
Pow2(k) == IF k = 0 THEN 1 ELSE 2 * Pow2(k - 1)

(* The IEEE-754 single-precision bytes, most significant first, of an      *)
(* integer of magnitude below 2^24 (every such integer is representable)   *)
Float32Bits(n) ==
  IF n = 0 THEN <<0, 0, 0, 0>>
  ELSE LET a == IF n < 0 THEN 0 - n ELSE n
           exponent == Log2(a) + 127
           mantissa == (a - Pow2(Log2(a))) * Pow2(23 - Log2(a))
       IN  <<(IF n < 0 THEN 128 ELSE 0) + (exponent \div 2),
             128 * (exponent % 2) + (mantissa \div 65536),
             (mantissa \div 256) % 256,
             mantissa % 256>>

(* C24: for REAL and LREAL, a representable value v and either endianness, *)
(* encode(v, T, be) succeeds with 4 (REAL) or 8 (LREAL) bytes and decode   *)
(* of those bytes under the same type and endianness returns the number v, *)
(* not raw bytes.                                                          *)
C24_FloatRoundTrip ==
  \A t \in Slots :
    (/\ Ended(t, "roundTrip")
     /\ TripType(t) \in {DT_REAL, DT_LREAL}
     /\ TripValue(t).num \in -16777215..16777215)
      => /\ calls[t].err = "none"
         /\ Len(calls[t].buf) = (IF TripType(t) = DT_REAL THEN 4 ELSE 8)
         /\ calls[t].res[1].kind # "Buffer"
         /\ TripType(t) = DT_REAL
              => calls[t].res = <<FloatValue(Float32Bits(TripValue(t).num))>>

(* C25: encoding a string of n characters as STRING gives the length byte  *)
(* min(n, 255) followed by exactly the first min(n, 255) characters, and   *)
(* decoding the result returns that truncated string.                      *)
C25_StringLengthPrefix ==
  \A t \in Slots :
    (Ended(t, "roundTrip") /\ TripType(t) = DT_STRING)
      => LET chars == TripValue(t).bytes
             kept == SubSeq(chars, 1, Min(Len(chars), 255))
         IN  /\ calls[t].err = "none"
             /\ calls[t].buf = <<Len(kept)>> \o kept
             /\ calls[t].res = <<StringValue(kept)>>

(* A string of 300 characters: length byte 255 and 255 payload bytes *)
C25_Witness ==
  \E t \in Slots :
    /\ Ended(t, "roundTrip")
    /\ TripType(t) = DT_STRING
    /\ Len(TripValue(t).bytes) = 300
    /\ calls[t].buf[1] = 255
    /\ Len(calls[t].buf) = 256
    /\ Len(calls[t].res[1].bytes) = 255

(* The failure of decode and of encode for a type code they do not know *)
UnsupportedDataType(c) ==
  /\ c.err = "Error"
  /\ SubSeq(c.msg, 1, 1) \in {<<"Unsupported CIP data type: 0x">>, <<"Unsupported data type: 0x">>}

(* C26: decode and encode fail with UnsupportedDataType for a type code    *)
(* outside the registry; an ARRAY whose element type, or a STRUCT whose    *)
(* member type, is outside the registry does not fail: each such element   *)
(* or member is the zero-length extraction of the data, returned as it is. *)
C26_UnknownTypeStrictThenPermissive ==
  \A t \in Slots :
    /\ (Ended(t, "roundTrip") /\ TripType(t) \notin TypeCodes) => UnsupportedDataType(calls[t])
    /\ Ended(t, "decode")
         => LET typeCode == calls[t].args[1]
                data == calls[t].args[2]
            IN  /\ typeCode \notin TypeCodes => UnsupportedDataType(calls[t])
                /\ (/\ typeCode = DT_ARRAY
                    /\ Len(data) >= 4
                    /\ ReadUInt16BE(data, 0) \notin TypeCodes)
                     => /\ calls[t].err = "none"
                        /\ calls[t].res =
                             <<ListValue([i \in 1..ReadUInt16BE(data, 2) |-> RawValue(<<>>)])>>
                /\ (/\ typeCode = DT_STRUCT
                    /\ Len(data) >= 4
                    /\ ReadUInt16BE(data, 0) = 1
                    /\ ReadUInt16BE(data, 2) \notin TypeCodes)
                     => /\ calls[t].err = "none"
                        /\ calls[t].res =
                             <<ListValue(<<MemberValue(ReadUInt16BE(data, 2), RawValue(<<>>))>>)>>

(* C27: safeGetAttribute fails with InvalidObjectId, with no path built    *)
(* and nothing sent, when one of its three ids is not an integer in        *)
(* [0, 65535]; a failure of the request or of the parsing that follows is  *)
(* thrown again as the same error, with the three ids of the call attached *)
(* as its metadata.                                                        *)
C27_SafeGetAttribute ==
  \A t \in Slots :
    calls[t].op = "safeGetAttribute"
      => IF \E i \in 1..3 : InvalidObjectId(calls[t].ids[i])
         THEN /\ Ended(t, "safeGetAttribute")
              /\ calls[t].err = "InvalidObjectId"
              /\ calls[t].sends = 0
              /\ calls[t].pkt = <<>>
              /\ Len(sent) = calls[t].pre.nsent
         ELSE /\ calls[t].err # "InvalidObjectId"
              /\ (Ended(t, "safeGetAttribute") /\ calls[t].err # "none")
                   => /\ calls[t].meta = <<calls[t].ids>>
                      /\ calls[t].recvs = 0 => calls[t].err = "TransportError"
                      /\ (calls[t].recvs = 1 /\ calls[t].data = <<>>)
                           => calls[t].err = "TimeoutError"
                      /\ calls[t].data # <<>>
                           => /\ calls[t].err = AttributeOutcome("getAttribute", calls[t].data).err
                              /\ calls[t].res = AttributeOutcome("getAttribute", calls[t].data).res

(* A request that failed on its reply, with the ids attached to the error *)
C27_Witness ==
  \E t \in Slots :
    /\ Ended(t, "safeGetAttribute")
    /\ calls[t].ids = <<Some(0), Some(65535), Some(300)>>
    /\ calls[t].data # <<>>
    /\ calls[t].err = "EncapsulationError"
    /\ calls[t].meta = <<calls[t].ids>>

(* The registration packets in the log of written packets *)
Registrations == {i \in 1..Len(sent) : sent[i].op = "establishSecureSession"}

(* The 16 bytes at offset 4 of the registration packet of the session that *)
(* log entry i belongs to: the last registration written before it         *)
RegisteredNonce(i) ==
  LET j == CHOOSE j \in Registrations : j < i /\ \A m \in Registrations : m < i => m <= j
  IN  SubSeq(sent[j].bytes, 5, 20)

(* The MAC at the end of a secure data packet and the bytes it covers *)
PacketMac(packet) == SubSeq(packet, Len(packet) - 7, Len(packet))

PacketMessage(packet) == SubSeq(packet, HEADER_LENGTH + 1, Len(packet) - 8)

(* C28: while a session is active the nonce of the client is the one its   *)
(* registration packet carried at offset 4, and the MAC of every           *)
(* sendSecureData packet and of every reply receiveWithValidation accepts  *)
(* in the session is computed under those 16 bytes.                        *)
C28_NonceFixedForSession ==
  /\ sessionActive
       => /\ Registrations # {}
          /\ RegisteredNonce(Len(sent) + 1) = sessionNonce
  /\ \A i \in SecureEntries :
       /\ \E j \in Registrations : j < i
       /\ PacketMac(sent[i].bytes)
            = HmacTrunc(RegisteredNonce(i), PacketMessage(sent[i].bytes))
  /\ \A t \in Slots :
       (Ended(t, "receiveWithValidation") /\ calls[t].err = "none" /\ sessionActive)
         => MacOf(calls[t].data) = HmacTrunc(RegisteredNonce(Len(sent) + 1), calls[t].res)

(* A session with a secure packet written and a reply accepted *)
C28_Witness ==
  /\ sessionActive
  /\ SecureEntries # {}
  /\ \E t \in Slots :
       /\ Ended(t, "receiveWithValidation")
       /\ calls[t].err = "none"
       /\ MacOf(calls[t].data) = HmacTrunc(sessionNonce, calls[t].res)

(* _connected and the socket as a connect() or disconnect() call found them *)
WasConnected(t) == calls[t].args[1]

SocketBefore(t) == calls[t].args[2]

(* C29: _connected is true when connect() resolves and false when          *)
(* disconnect() has completed and when the socket has closed; connect() on *)
(* a connected client resolves at once and leaves the socket as it is, and *)
(* disconnect() on a client that is not connected changes nothing.         *)
C29_ConnectedFlag ==
  /\ sock = "closed" => ~connected
  /\ \A t \in Slots :
       /\ (Ended(t, "connect") /\ calls[t].err = "none") => connected
       /\ Ended(t, "disconnect") => ~connected
       /\ (calls[t].op = "connect" /\ WasConnected(t))
            => /\ calls[t].pc = "done"
               /\ calls[t].err = "none"
               /\ sock = SocketBefore(t)
       /\ (calls[t].op = "disconnect" /\ ~WasConnected(t))
            => /\ calls[t].pc = "done"
               /\ sock = SocketBefore(t)
               /\ calls[t].pre = Snapshot

(* A connect() on a connected client that resolved at once *)
C29_Witness ==
  \E t \in Slots : Ended(t, "connect") /\ WasConnected(t) /\ connected /\ sock = "open"

(* A handshake in flight: its registration packet is written and its reply *)
(* has not been received                                                   *)
Establishing(u) ==
  /\ calls[u].op = "establishSecureSession"
  /\ calls[u].pc \in {"send", "recv"}
  /\ calls[u].wok

(* C30: an establishSecureSession call made while another handshake is in  *)
(* flight fails with SessionAlreadyActive and writes no registration       *)
(* packet.                                                                 *)
C30_SecondHandshakeRejected ==
  \A t \in Slots, u \in Slots :
    (/\ t # u
     /\ calls[t].op = "establishSecureSession"
     /\ calls[t].ord = 2
     /\ calls[u].ord = 1
     /\ Establishing(u))
      => /\ calls[t].pc = "done"
         /\ calls[t].err = "SessionAlreadyActive"
         /\ Len(sent) = calls[t].pre.nsent

(* The 16 bytes at offset 4 of a registration packet *)
NonceOf(packet) == SubSeq(packet, 5, 20)

(* C31: no two registration packets written by the client carry the same  *)
(* nonce: every handshake attempt that passes the Idle check draws a new   *)
(* one.                                                                    *)
C31_FreshNoncePerHandshake ==
  \A i \in Registrations, j \in Registrations :
    i < j => NonceOf(sent[i].bytes) # NonceOf(sent[j].bytes)

(* The size field of the registry entry of a fixed-size type *)
SizeOf(typeCode) ==
  CASE typeCode \in {DT_BOOL, DT_SINT} -> 1
    [] typeCode = DT_INT -> 2
    [] typeCode \in {DT_DINT, DT_REAL} -> 4
    [] typeCode = DT_LREAL -> 8

FixedSizeTypes == {DT_BOOL, DT_SINT, DT_INT, DT_DINT, DT_REAL, DT_LREAL}

(* The members of a struct of fixed-size members, each decoded from the    *)
(* slice of its type's size that follows its type code; <<>> when a member *)
(* is not of a fixed-size type or the data end before it does.             *)
RECURSIVE SizedMembers(_, _, _, _)
SizedMembers(data, offset, remaining, isBigEndian) ==
  IF remaining = 0 THEN <<ListValue(<<>>)>>
  ELSE IF offset + 2 > Len(data) \/ ReadUInt16BE(data, offset) \notin FixedSizeTypes THEN <<>>
  ELSE LET memberType == ReadUInt16BE(data, offset)
           size == SizeOf(memberType)
           rest == SizedMembers(data, offset + 2 + size, remaining - 1, isBigEndian)
       IN  IF offset + 2 + size > Len(data) \/ rest = <<>> THEN <<>>
           ELSE <<ListValue(
                    <<MemberValue(memberType,
                                  Decode(memberType,
                                         SubSeq(data, offset + 3, offset + 2 + size),
                                         isBigEndian).res)>>
                      \o rest[1].items)>>

(* C33: decode of an ARRAY of a fixed-size element type returns count      *)
(* values, the i-th decoded from the i-th slice of the element size from   *)
(* offset 4 on; decode of a STRUCT of fixed-size members returns its       *)
(* members {type, value}, each decoded from the slice of its type's size.  *)
C33_FixedSizeElements ==
  \A t \in Slots :
    Ended(t, "decode")
      => LET typeCode == calls[t].args[1]
             data == calls[t].args[2]
             isBigEndian == calls[t].args[3]
         IN  /\ (/\ typeCode = DT_ARRAY
                 /\ Len(data) >= 4
                 /\ ReadUInt16BE(data, 0) \in FixedSizeTypes
                 /\ Len(data) >= 4 + ReadUInt16BE(data, 2) * SizeOf(ReadUInt16BE(data, 0)))
                  => LET elementType == ReadUInt16BE(data, 0)
                         size == SizeOf(elementType)
                     IN  /\ calls[t].err = "none"
                         /\ calls[t].res =
                              <<ListValue([i \in 1..ReadUInt16BE(data, 2) |->
                                  Decode(elementType,
                                         SubSeq(data, 5 + (i - 1) * size, 4 + i * size),
                                         isBigEndian).res])>>
             /\ (/\ typeCode = DT_STRUCT
                 /\ Len(data) >= 2
                 /\ SizedMembers(data, 2, ReadUInt16BE(data, 0), isBigEndian) # <<>>)
                  => /\ calls[t].err = "none"
                     /\ calls[t].res =
                          SizedMembers(data, 2, ReadUInt16BE(data, 0), isBigEndian)

(* C32: on a client whose connectionType is as the constructor left it, a  *)
(* sendSecureData call made with the session Active passes both checks and *)
(* hands exactly one packet, header, data, sequence number and MAC, to the *)
(* transport.                                                              *)
C32_DefaultClientSendsSecureData ==
  \A t \in Slots :
    (/\ Ended(t, "sendSecureData")
     /\ calls[t].pre.active
     /\ calls[t].pre.type = Undefined)
      => /\ calls[t].err \notin {"NotPointToPoint", "SessionNotActive"}
         /\ calls[t].sends = 1
         /\ calls[t].pkt = BuildSecurePacket(sessionNonce, sessionHandle, calls[t].buf,
                                             sequenceNumber)

(* C34: sessionHandle is 0 in every reachable state: a handshake succeeds  *)
(* only on a reply whose embedded handle is the handle 0 the client had    *)
(* and whose validated payload has a zero word at bytes 4-8, the word the  *)
(* handle is then read from.                                               *)
C34_SessionHandleIsZero ==
  /\ sessionHandle = 0
  /\ \A t \in Slots :
       (Ended(t, "establishSecureSession") /\ calls[t].err = "none")
         => /\ calls[t].pre.handle = 0
            /\ ReadUInt32LE(calls[t].data, 4) = 0
            /\ Len(PayloadOf(calls[t].data)) >= 8
            /\ ReadUInt32LE(PayloadOf(calls[t].data), 4) = 0
            /\ EstablishedHandle(calls[t].data) = 0

(* A handshake has succeeded and has assigned the handle *)
C34_Witness ==
  \E t \in Slots :
    /\ Ended(t, "establishSecureSession")
    /\ calls[t].err = "none"
    /\ sessionActive
    /\ sessionHandle = EstablishedHandle(calls[t].data)

(* A sendSecureData call that has passed its two checks *)
PassedChecks(t) == calls[t].op = "sendSecureData" /\ calls[t].sends = 1

(* The secure packets written since the last registration packet *)
SessionEntries ==
  {i \in SecureEntries : \A m \in Registrations : m < i}

ReplyVerdict(reply, nonce, handle) ==
  CASE Len(reply) < 24 -> Throw("InvalidLength")
    [] Len(reply) >= 24 /\ ReadUInt32LE(reply, 4) # handle -> Throw("SessionHandleMismatch")
    [] Len(reply) >= 24 /\ ReadUInt32LE(reply, 4) = handle
         /\ MacOf(reply) # HmacTrunc(nonce, PayloadOf(reply)) -> Throw("SecurityError")
    [] OTHER -> Return(PayloadOf(reply))

(* C36: the outcome of receiveWithValidation on a reply is a function of   *)
(* the reply bytes, the session nonce and the session handle, the same     *)
(* whatever the sequence counter is and whatever was received before, and  *)
(* the call leaves the session state as it was.                            *)
C36_VerdictFromReplyNonceHandle ==
  \A t \in Slots :
    (Ended(t, "receiveWithValidation") /\ GotReply(t))
      => LET verdict == ReplyVerdict(calls[t].data, calls[t].pre.nonce, calls[t].pre.handle)
         IN  /\ calls[t].err = verdict.err
             /\ calls[t].res = verdict.res
             /\ sessionNonce = calls[t].pre.nonce
             /\ sessionHandle = calls[t].pre.handle
             /\ sessionActive = calls[t].pre.active
             /\ sequenceNumber = calls[t].pre.seq
             /\ lastActivity = calls[t].pre.last

(* A reply is accepted by a client whose sequence counter is 2 *)
C36_Witness ==
  \E t \in Slots :
    /\ Ended(t, "receiveWithValidation")
    /\ calls[t].err = "none"
    /\ calls[t].res # <<>>
    /\ sessionActive
    /\ sequenceNumber = 2

(* No receive is pending *)
NoneWaiting == \A t \in Slots : calls[t].pc # "recv"

(* C37: a listener is registered exactly for the calls whose receive is    *)
(* pending, so after a timeout the timed-out request has none.  A chunk    *)
(* that arrives resolves the request that is waiting, which takes it as    *)
(* its reply; a chunk that arrives while no receive is pending resolves no *)
(* request and changes no call.                                            *)
C37_LateReplyGoesToWhoeverWaits ==
  /\ [](\A t \in Slots : Listening(listeners, t) <=> calls[t].pc = "recv")
  /\ [][/\ (ready = <<>> /\ ready' # <<>>)
             => \A t \in Slots :
                  IF calls[t].pc = "recv"
                  THEN /\ calls'[t].pc = "resume"
                       /\ calls'[t].data # <<>>
                       /\ Listening(ready', t)
                  ELSE calls'[t] = calls[t]
        /\ \A t \in Slots :
             Resumes(t, "sendCipRequest")
               => /\ calls'[t].err = CheckEncapReply(calls[t].data).err
                  /\ calls'[t].res = CheckEncapReply(calls[t].data).res
        /\ (NoneWaiting /\ ready = <<>>) => ready' = <<>>
        /\ hist'.unheard # hist.unheard
             => /\ NoneWaiting
                /\ calls' = calls
                /\ ready' = ready]_vars

(* After a timeout one chunk has arrived unheard and another has resolved  *)
(* the request that was waiting                                            *)
C37_Witness ==
  \E t \in Slots :
    /\ hist.timedOut
    /\ hist.unheard = 1
    /\ calls[t].op = "sendCipRequest"
    /\ calls[t].pc = "resume"
    /\ calls[t].data # <<>>
    /\ calls[t].pre.nsent >= 1
====
